---- MODULE Spec2Model ----
(***************************************************************************)
(* A model of the parcel-locker station of src/lab1 (Postomat, Locker,     *)
(* Parcel, Notification).  One action per public operation of Postomat;    *)
(* the methods of Locker and Parcel are operators on records.              *)
(*                                                                         *)
(* Time is counted in whole days (datetime.now() is the variable now,      *)
(* advanced by Tick, ClockStep days at a time).  Fields that the code only writes and never reads    *)
(* (created_at, placed_at, delivered_at, last_maintenance, the timestamp   *)
(* and the free text of alerts, reports and notifications) are left out.   *)
(* In the station a parcel is named by its place in the order of           *)
(* construction, 1..MaxParcels; issued[t] is the tracking number of t.     *)
(***************************************************************************)
EXTENDS Integers, Sequences, FiniteSets, TLC

VARIABLES
    total_lockers,    \* Postomat.total_lockers
    security_level,   \* Postomat.security_level
    is_operational,   \* Postomat.is_operational
    security_alerts,  \* Postomat.security_alerts: sequence of alert types
    user_operations,  \* Postomat.user_operations: user id -> count (a dict)
    lockers,          \* Postomat.lockers: sequence of Locker records
    parcels,          \* Postomat.parcels: the keys of the dict, in insertion order
    notifications,    \* Postomat.notifications
    maintenance_log,  \* Postomat.maintenance_log
    parcelObj,        \* the Parcel objects the callers hold, by tracking number
    now,              \* datetime.now(), in days
    existing_trackings, \* Parcel._existing_trackings
    issued,           \* the codes _generate_unique_tracking has returned, in order
    retries,          \* the candidates _generate_unique_tracking has drawn again
    phone,            \* Person.phone of the person last constructed
    calls             \* the send_parcel calls under way, by parcel: where each
                      \* stands, the locker it scanned, what it returned

vars == <<total_lockers, security_level, is_operational, security_alerts,
          user_operations, lockers, parcels, notifications, maintenance_log,
          parcelObj, now, existing_trackings, issued, retries, phone, calls>>

\* The state of the generator of tracking numbers, a class attribute of Parcel.
generator == <<existing_trackings, issued, retries>>

----------------------------------------------------------------------------
(* Bounds of the model *)

MaxLockers == 2
MaxParcels == 2
MaxTime == 6
ClockStep == 3
MaxOps == 1
MaxHistory == 1
MaxOpsSec == 52
MaxOpsOther == 1
MaxAlertsSec == 2
MaxOpsLock == 1
MaxHistoryLock == 2
MaxDigit == 1
MaxRetries == 1
MaxBank == 5

(* Program constants *)

StorageDays == 3
SuspiciousThreshold == 50
TrackingDigits == 10

None == 0
NoDeadline == 0 - 1

Sizes == {"SMALL", "MEDIUM", "LARGE"}
SecurityLevels == {"LOW", "MEDIUM", "HIGH"}
Tracking == 1..MaxParcels
Users == {"u1", "u2"}
Recipients == {"r1", "r2"}
Technicians == {"", "tech"}

\* No send_parcel call is under way.
NoCall == [pc |-> "idle", locker |-> None, result |-> "none"]
NoCalls == [t \in Tracking |-> NoCall]

----------------------------------------------------------------------------
(* Validator and Person: telephone numbers, as sequences of characters *)

DigitChars == {"0", "1", "2", "3", "4", "5", "6", "7", "8", "9"}

\* Validator.BELARUSIAN_OPERATORS
BELARUSIAN_OPERATORS ==
    { <<"2", "4">>, <<"2", "5">>, <<"2", "9">>, <<"3", "3">>, <<"4", "4">> }

\* re.sub(r'[\s\-\(\)]', '', phone)
Cleaned(ph) == SelectSeq(ph, LAMBDA ch : ch \notin {" ", "-", "(", ")"})

\* \d{9} from position from on, and nothing after it
NineDigitsFrom(c, from) ==
    /\ Len(c) = from + 8
    /\ \A k \in from .. Len(c) : c[k] \in DigitChars

\* ^\+375\d{9}$
MatchPlus375(c) ==
    /\ Len(c) >= 4
    /\ SubSeq(c, 1, 4) = <<"+", "3", "7", "5">>
    /\ NineDigitsFrom(c, 5)

\* ^80\d{9}$
Match80(c) ==
    /\ Len(c) >= 2
    /\ SubSeq(c, 1, 2) = <<"8", "0">>
    /\ NineDigitsFrom(c, 3)

\* ^375\d{9}$
Match375(c) ==
    /\ Len(c) >= 3
    /\ SubSeq(c, 1, 3) = <<"3", "7", "5">>
    /\ NineDigitsFrom(c, 4)

\* ^8\d{9}$ and len(cleaned) == 10
Match8(c) ==
    /\ Len(c) = 10
    /\ c[1] = "8"
    /\ NineDigitsFrom(c, 2)

\* cleaned[from:]
SliceFrom(c, from) == SubSeq(c, from + 1, Len(c))

\* validate_phone with the operator code tested in the branch of +375 too
ValidatePhoneAllBranches(ph) ==
    LET cleaned == Cleaned(ph)
    IN IF MatchPlus375(cleaned)
       THEN SubSeq(cleaned, 5, 6) \in BELARUSIAN_OPERATORS
       ELSE IF Match80(cleaned)
       THEN /\ SubSeq(cleaned, 3, 4) \in BELARUSIAN_OPERATORS
            /\ MatchPlus375(<<"+", "3", "7", "5">> \o SliceFrom(cleaned, 2))
       ELSE IF Match375(cleaned)
       THEN /\ SubSeq(cleaned, 4, 5) \in BELARUSIAN_OPERATORS
            /\ MatchPlus375(<<"+">> \o cleaned)
       ELSE IF Match8(cleaned)
       THEN /\ SubSeq(cleaned, 2, 3) \in BELARUSIAN_OPERATORS
            /\ MatchPlus375(<<"+", "3", "7", "5">> \o SliceFrom(cleaned, 1))
       ELSE FALSE

ValidatePhone(ph) ==
    LET cleaned == Cleaned(ph)
    IN IF MatchPlus375(cleaned)
       THEN MatchPlus375(cleaned)
       ELSE IF Match80(cleaned)
       THEN /\ SubSeq(cleaned, 3, 4) \in BELARUSIAN_OPERATORS
            /\ MatchPlus375(<<"+", "3", "7", "5">> \o SliceFrom(cleaned, 2))
       ELSE IF Match375(cleaned)
       THEN /\ SubSeq(cleaned, 4, 5) \in BELARUSIAN_OPERATORS
            /\ MatchPlus375(<<"+">> \o cleaned)
       ELSE IF Match8(cleaned)
       THEN /\ SubSeq(cleaned, 2, 3) \in BELARUSIAN_OPERATORS
            /\ MatchPlus375(<<"+", "3", "7", "5">> \o SliceFrom(cleaned, 1))
       ELSE FALSE

\* normalize_phone that keeps the 0 of the prefix 80
NormalizePhoneKeepsZero(ph) ==
    LET cleaned == Cleaned(ph)
    IN IF MatchPlus375(cleaned) THEN cleaned
       ELSE IF Match80(cleaned) THEN <<"+", "3", "7", "5">> \o SliceFrom(cleaned, 1)
       ELSE IF Match8(cleaned) THEN <<"+", "3", "7", "5">> \o SliceFrom(cleaned, 1)
       ELSE IF Match375(cleaned) THEN <<"+">> \o cleaned
       ELSE cleaned

NormalizePhone(ph) ==
    LET cleaned == Cleaned(ph)
    IN IF MatchPlus375(cleaned) THEN cleaned
       ELSE IF Match80(cleaned) THEN <<"+", "3", "7", "5">> \o SliceFrom(cleaned, 2)
       ELSE IF Match8(cleaned) THEN <<"+", "3", "7", "5">> \o SliceFrom(cleaned, 1)
       ELSE IF Match375(cleaned) THEN <<"+">> \o cleaned
       ELSE cleaned

\* The telephone number of the sender of the tests, +375291234567.
SenderPhone ==
    <<"+", "3", "7", "5", "2", "9", "1", "2", "3", "4", "5", "6", "7">>

\* No person has been constructed.
NoPerson == <<>>

\* Person(name, ph, email) with a valid name and email: ValidationError
\* unless validate_phone accepts ph, else the person keeps the normalised
\* number.
NewPerson(ph) ==
    /\ phone = NoPerson
    /\ calls = NoCalls
    /\ IF ValidatePhone(ph)
       THEN phone' = NormalizePhone(ph)
       ELSE UNCHANGED phone
    /\ UNCHANGED <<generator, calls, total_lockers, security_level, is_operational,
                   security_alerts, user_operations, lockers, parcels,
                   notifications, maintenance_log, parcelObj, now>>

----------------------------------------------------------------------------
(* Parcel *)

NewParcel(size, sender, recipient) ==
    [size |-> size, sender |-> sender, recipient |-> recipient,
     status |-> "CREATED", locker_number |-> None, storage_until |-> NoDeadline]

\* place_in_locker without the storage window
PlaceInLockerNoWindow(pr, locker_number) ==
    [pr EXCEPT !.status = "IN_POSTOMAT",
               !.locker_number = locker_number,
               !.storage_until = now]

\* place_in_locker without the assignment of locker_number
PlaceInLockerNoNumber(pr, locker_number) ==
    [pr EXCEPT !.status = "IN_POSTOMAT",
               !.storage_until = now + StorageDays]

PlaceInLocker(pr, locker_number) ==
    [pr EXCEPT !.status = "IN_POSTOMAT",
               !.locker_number = locker_number,
               !.storage_until = now + StorageDays]

Deliver(pr) == [pr EXCEPT !.status = "DELIVERED"]

\* is_expired with >= in place of >
IsExpiredAtDeadline(pr) ==
    IF pr.storage_until = NoDeadline THEN FALSE ELSE now >= pr.storage_until

IsExpired(pr) ==
    IF pr.storage_until = NoDeadline THEN FALSE ELSE now > pr.storage_until

----------------------------------------------------------------------------
(* Locker *)

\* size_order with the value of LARGE mistyped
SizeOrderLargeAsSmall(size) ==
    CASE size = "SMALL" -> 1
      [] size = "MEDIUM" -> 2
      [] size = "LARGE" -> 1

SizeOrder(size) ==
    CASE size = "SMALL" -> 1
      [] size = "MEDIUM" -> 2
      [] size = "LARGE" -> 3

NewLocker(number, size) ==
    [number |-> number, size |-> size, is_occupied |-> FALSE,
     is_functional |-> TRUE, current_parcel |-> None]

OpenError(l) == ~l.is_functional

\* The checks of put_parcel without the test of is_occupied
PutParcelErrorIgnoresOccupied(l, pr) ==
    \/ ~l.is_functional
    \/ SizeOrder(pr.size) > SizeOrder(l.size)

PutParcelError(l, pr) ==
    \/ ~l.is_functional
    \/ l.is_occupied
    \/ SizeOrder(pr.size) > SizeOrder(l.size)

PutParcel(l, p) == [l EXCEPT !.is_occupied = TRUE, !.current_parcel = p]

TakeParcelError(l) == ~l.is_functional \/ ~l.is_occupied

\* take_parcel that leaves current_parcel in place
TakeParcelKeepsParcel(l) == [l EXCEPT !.is_occupied = FALSE]

TakeParcel(l) == [l EXCEPT !.is_occupied = FALSE, !.current_parcel = None]

\* repair that leaves the fault in place
RepairLeavesFault(l) == l

Repair(l) == [l EXCEPT !.is_functional = TRUE]

----------------------------------------------------------------------------
(* Postomat: construction *)

EmptyDict == [u \in {} |-> 0]

SCount(n) == n \div 2

\* m_count rounded to the nearest integer in place of int()
MCountRounded(n) == (3 * n + 5) \div 10

MCount(n) == (3 * n) \div 10

\* The banks random.shuffle can produce: every arrangement of the size
\* distribution, renumbered 1..n in bank order.
CreateLockers(n) ==
    { [i \in 1..n |-> NewLocker(i, f[i])] :
        f \in { g \in [1..n -> Sizes] :
                  /\ Cardinality({i \in 1..n : g[i] = "SMALL"}) = SCount(n)
                  /\ Cardinality({i \in 1..n : g[i] = "MEDIUM"}) = MCount(n) } }

InitStation(n, level) ==
    /\ n > 0
    /\ total_lockers = n
    /\ security_level = level
    /\ is_operational = TRUE
    /\ security_alerts = <<>>
    /\ user_operations = EmptyDict
    /\ lockers \in CreateLockers(n)
    /\ parcels = <<>>
    /\ notifications = <<>>
    /\ maintenance_log = <<>>

\* Parcel.TRACKING_PREFIXES, each prefix as its sequence of characters.
TRACKING_PREFIXES ==
    << <<"A", "B", "C">>, <<"X", "Y", "Z">>, <<"T", "R", "K">>,
       <<"P", "K", "G">>, <<"B", "O", "X">>, <<"S", "H", "P">>,
       <<"D", "L", "V">>, <<"P", "O", "S">> >>

Prefixes == { TRACKING_PREFIXES[k] : k \in DOMAIN TRACKING_PREFIXES }

\* str(d) of a digit d
DigitChar == <<"0", "1", "2", "3", "4", "5", "6", "7", "8", "9">>

\* ''.join([str(d) for d in numbers])
JoinDigits(numbers) == [i \in 1..Len(numbers) |-> DigitChar[numbers[i] + 1]]

\* f"{prefix}{numbers}"
TrackingOf(prefix, numbers) == prefix \o JoinDigits(numbers)

\* The draws of the ten digits the model follows: nine zeros and a last
\* digit in 0..MaxDigit.
NumberDraws ==
    { [i \in 1..TrackingDigits |-> IF i = TrackingDigits THEN d ELSE 0] :
        d \in 0..MaxDigit }

\* The test of the candidate that takes every candidate for new
IsNewTrackingAlways(tracking) == TRUE

\* tracking not in cls._existing_trackings
IsNewTracking(tracking) == tracking \notin existing_trackings

\* One turn of the loop of _generate_unique_tracking with the draws prefix
\* and numbers: a new candidate is recorded and returned, a known one is
\* dropped and the loop turns again.
GenerateUniqueTracking(prefix, numbers) ==
    LET tracking == TrackingOf(prefix, numbers)
    IN /\ IF IsNewTracking(tracking)
          THEN /\ existing_trackings' = existing_trackings \cup {tracking}
               /\ issued' = Append(issued, tracking)
               /\ UNCHANGED retries
          ELSE /\ retries' = retries + 1
               /\ UNCHANGED <<existing_trackings, issued>>
       /\ UNCHANGED <<total_lockers, security_level, is_operational,
                      security_alerts, user_operations, lockers, parcels,
                      notifications, maintenance_log, parcelObj, now, phone,
                      calls>>

\* The tracking number of parcel t in the station: the t-th code of a run of
\* the generator without a retry (the station never reads inside a code).
TrackingCode(t) ==
    TrackingOf(TRACKING_PREFIXES[1],
               [i \in 1..TrackingDigits |-> IF i = TrackingDigits THEN t - 1 ELSE 0])

InitParcels ==
    /\ parcelObj \in { [t \in Tracking |-> NewParcel(sz[t], "s1", "r1")] :
                         sz \in [Tracking -> Sizes] }
    /\ issued = [t \in Tracking |-> TrackingCode(t)]
    /\ existing_trackings = { TrackingCode(t) : t \in Tracking }
    /\ retries = 0
    /\ phone = NormalizePhone(SenderPhone)
    /\ calls = NoCalls

Init ==
    /\ \E n \in 1..MaxLockers, level \in SecurityLevels : InitStation(n, level)
    /\ InitParcels
    /\ now = 0

----------------------------------------------------------------------------
(* Postomat: helpers *)

\* tracking_number in self.parcels
InIndex(t) == \E i \in DOMAIN parcels : parcels[i] = t

\* find_available_locker without the test of is_functional
FindAvailableLockerOutOfOrder(required_size) ==
    LET fit == { i \in DOMAIN lockers :
                   /\ ~lockers[i].is_occupied
                   /\ SizeOrder(lockers[i].size) >= SizeOrder(required_size) }
    IN IF fit = {} THEN None
       ELSE CHOOSE i \in fit : \A j \in fit : i <= j

\* find_available_locker without the test of is_occupied
FindAvailableLockerOccupied(required_size) ==
    LET fit == { i \in DOMAIN lockers :
                   /\ lockers[i].is_functional
                   /\ SizeOrder(lockers[i].size) >= SizeOrder(required_size) }
    IN IF fit = {} THEN None
       ELSE CHOOSE i \in fit : \A j \in fit : i <= j

\* find_available_locker as a best fit: the smallest locker that will do
FindAvailableLockerBestFit(required_size) ==
    LET fit == { i \in DOMAIN lockers :
                   /\ ~lockers[i].is_occupied
                   /\ lockers[i].is_functional
                   /\ SizeOrder(lockers[i].size) >= SizeOrder(required_size) }
    IN IF fit = {} THEN None
       ELSE CHOOSE i \in fit :
                \A j \in fit :
                    \/ SizeOrder(lockers[i].size) < SizeOrder(lockers[j].size)
                    \/ /\ SizeOrder(lockers[i].size) = SizeOrder(lockers[j].size)
                       /\ i <= j

\* The first locker in bank order that is free, functional and large enough;
\* its position in the bank, or None.
FindAvailableLocker(required_size) ==
    LET fit == { i \in DOMAIN lockers :
                   /\ ~lockers[i].is_occupied
                   /\ lockers[i].is_functional
                   /\ SizeOrder(lockers[i].size) >= SizeOrder(required_size) }
    IN IF fit = {} THEN None
       ELSE CHOOSE i \in fit : \A j \in fit : i <= j

\* The first locker in bank order whose number is locker_number, or None.
LockerByNumber(locker_number) ==
    LET hit == { i \in DOMAIN lockers : lockers[i].number = locker_number }
    IN IF hit = {} THEN None
       ELSE CHOOSE i \in hit : \A j \in hit : i <= j

\* _log_security_alert without the test of the security level
LogSecurityAlertAnyLevel(sec, alert_type) ==
    [alerts |-> Append(sec.alerts, alert_type),
     oper |-> IF alert_type \in {"unauthorized_access", "suspicious_activity"}
              THEN FALSE
              ELSE sec.oper]

\* _log_security_alert that assigns the flag on every alert
LogSecurityAlertAssignsFlag(sec, alert_type) ==
    [alerts |-> Append(sec.alerts, alert_type),
     oper |-> ~(/\ security_level = "HIGH"
                /\ alert_type \in {"unauthorized_access", "suspicious_activity"})]

\* _log_security_alert without the test of the alert type
LogSecurityAlertAnyType(sec, alert_type) ==
    [alerts |-> Append(sec.alerts, alert_type),
     oper |-> IF security_level = "HIGH" THEN FALSE ELSE sec.oper]

\* self._log_security_alert, on the pair (alert log, operational flag)
LogSecurityAlert(sec, alert_type) ==
    [alerts |-> Append(sec.alerts, alert_type),
     oper |-> IF /\ security_level = "HIGH"
                 /\ alert_type \in {"unauthorized_access", "suspicious_activity"}
              THEN FALSE
              ELSE sec.oper]

\* _check_security with >= in place of > in the test of the threshold
CheckSecurityFromThreshold(user_id) ==
    IF ~is_operational
    THEN [allowed |-> FALSE, msg |-> "blocked", ops |-> user_operations,
          alerts |-> security_alerts, oper |-> is_operational]
    ELSE LET count == (IF user_id \in DOMAIN user_operations
                       THEN user_operations[user_id] ELSE 0) + 1
             ops == [u \in DOMAIN user_operations \cup {user_id} |->
                       IF u = user_id THEN count ELSE user_operations[u]]
             sec == [alerts |-> security_alerts, oper |-> is_operational]
         IN IF count >= SuspiciousThreshold
            THEN LET logged == LogSecurityAlert(sec, "suspicious_activity")
                 IN IF security_level = "HIGH"
                    THEN [allowed |-> FALSE, msg |-> "suspicious", ops |-> ops,
                          alerts |-> logged.alerts, oper |-> logged.oper]
                    ELSE [allowed |-> TRUE, msg |-> "OK", ops |-> ops,
                          alerts |-> logged.alerts, oper |-> logged.oper]
            ELSE [allowed |-> TRUE, msg |-> "OK", ops |-> ops,
                  alerts |-> sec.alerts, oper |-> sec.oper]

\* _check_security that stores the new count only when it admits the call
CheckSecurityCountsAdmitted(user_id) ==
    IF ~is_operational
    THEN [allowed |-> FALSE, msg |-> "blocked", ops |-> user_operations,
          alerts |-> security_alerts, oper |-> is_operational]
    ELSE LET count == (IF user_id \in DOMAIN user_operations
                       THEN user_operations[user_id] ELSE 0) + 1
             ops == [u \in DOMAIN user_operations \cup {user_id} |->
                       IF u = user_id THEN count ELSE user_operations[u]]
             sec == [alerts |-> security_alerts, oper |-> is_operational]
         IN IF count > SuspiciousThreshold
            THEN LET logged == LogSecurityAlert(sec, "suspicious_activity")
                 IN IF security_level = "HIGH"
                    THEN [allowed |-> FALSE, msg |-> "suspicious",
                          ops |-> user_operations,
                          alerts |-> logged.alerts, oper |-> logged.oper]
                    ELSE [allowed |-> TRUE, msg |-> "OK", ops |-> ops,
                          alerts |-> logged.alerts, oper |-> logged.oper]
            ELSE [allowed |-> TRUE, msg |-> "OK", ops |-> ops,
                  alerts |-> sec.alerts, oper |-> sec.oper]

\* _check_security without the test of the operational flag
CheckSecurityIgnoresLock(user_id) ==
    LET count == (IF user_id \in DOMAIN user_operations
                  THEN user_operations[user_id] ELSE 0) + 1
        ops == [u \in DOMAIN user_operations \cup {user_id} |->
                  IF u = user_id THEN count ELSE user_operations[u]]
        sec == [alerts |-> security_alerts, oper |-> is_operational]
    IN IF count > SuspiciousThreshold
       THEN LET logged == LogSecurityAlert(sec, "suspicious_activity")
            IN IF security_level = "HIGH"
               THEN [allowed |-> FALSE, msg |-> "suspicious", ops |-> ops,
                     alerts |-> logged.alerts, oper |-> logged.oper]
               ELSE [allowed |-> TRUE, msg |-> "OK", ops |-> ops,
                     alerts |-> logged.alerts, oper |-> logged.oper]
       ELSE [allowed |-> TRUE, msg |-> "OK", ops |-> ops,
             alerts |-> sec.alerts, oper |-> sec.oper]

\* self._check_security: the verdict and the security state it leaves
CheckSecurity(user_id) ==
    IF ~is_operational
    THEN [allowed |-> FALSE, msg |-> "blocked", ops |-> user_operations,
          alerts |-> security_alerts, oper |-> is_operational]
    ELSE LET count == (IF user_id \in DOMAIN user_operations
                       THEN user_operations[user_id] ELSE 0) + 1
             ops == [u \in DOMAIN user_operations \cup {user_id} |->
                       IF u = user_id THEN count ELSE user_operations[u]]
             sec == [alerts |-> security_alerts, oper |-> is_operational]
         IN IF count > SuspiciousThreshold
            THEN LET logged == LogSecurityAlert(sec, "suspicious_activity")
                 IN IF security_level = "HIGH"
                    THEN [allowed |-> FALSE, msg |-> "suspicious", ops |-> ops,
                          alerts |-> logged.alerts, oper |-> logged.oper]
                    ELSE [allowed |-> TRUE, msg |-> "OK", ops |-> ops,
                          alerts |-> logged.alerts, oper |-> logged.oper]
            ELSE [allowed |-> TRUE, msg |-> "OK", ops |-> ops,
                  alerts |-> sec.alerts, oper |-> sec.oper]

\* _notify_recipient that appends the notification before it sends it
InternalNotifyRecipientAppendsFirst(history, recipient, p, delivered) ==
    Append(history, [recipient |-> recipient, parcel |-> p, is_sent |-> delivered])

\* self._notify_recipient: Notification.send either delivers, and the
\* notification is appended to the history, or raises NotificationError,
\* which is swallowed.
InternalNotifyRecipient(history, recipient, p, delivered) ==
    IF delivered
    THEN Append(history, [recipient |-> recipient, parcel |-> p, is_sent |-> TRUE])
    ELSE history

\* send_parcel without its duplicate check
AlreadyInPostomatNever(p) == FALSE

\* parcel.tracking_number in self.parcels, the duplicate check of send_parcel
AlreadyInPostomat(p) == InIndex(p)

\* self.parcels[parcel.tracking_number] = parcel
IndexAfterSend(p) == IF InIndex(p) THEN parcels ELSE Append(parcels, p)

\* receive_parcel without the del
IndexAfterReceiveKept(t) == parcels

\* del self.parcels[tracking_number]
IndexAfterReceive(t) == SelectSeq(parcels, LAMBDA x : x # t)

----------------------------------------------------------------------------
(* Postomat: operations.  For each operation that returns (success,        *)
(* message), XOutcome is the branch of the code the call takes, named by   *)
(* the message it returns, and the action X is the effect of that branch.  *)

\* "blocked": Почтомат заблокирован по соображениям безопасности
\* "suspicious": Обнаружена подозрительная активность. Операция заблокирована
\* "not_working": Почтомат временно не работает
\* "duplicate": Посылка ... уже находится в почтомате
\* "no_locker": Нет свободных ячеек подходящего размера
\* "locker_error": Ошибка ячейки: ...
\* "sent": Посылка ... отправлена в ячейку ...
SendOutcome(p, user_id) ==
    LET g == CheckSecurity(user_id)
        pr == parcelObj[p]
        i == FindAvailableLocker(pr.size)
    IN IF ~g.allowed THEN g.msg
       ELSE IF ~g.oper THEN "not_working"
       ELSE IF AlreadyInPostomat(p) THEN "duplicate"
       ELSE IF i = None THEN "no_locker"
       ELSE IF PutParcelError(lockers[i], pr) THEN "locker_error"
       ELSE "sent"

\* delivered: whether Notification.send delivers the arrival notice.
SendParcel(p, user_id, delivered) ==
    LET g == CheckSecurity(user_id)
        pr == parcelObj[p]
        i == FindAvailableLocker(pr.size)
    IN /\ user_operations' = g.ops
       /\ security_alerts' = g.alerts
       /\ is_operational' = g.oper
       /\ UNCHANGED <<generator, phone, calls, total_lockers, security_level, maintenance_log, now>>
       /\ IF SendOutcome(p, user_id) = "sent"
          THEN /\ lockers' = [lockers EXCEPT ![i] = PutParcel(lockers[i], p)]
               /\ parcelObj' = [parcelObj EXCEPT
                                  ![p] = PlaceInLocker(pr, lockers[i].number)]
               /\ parcels' = IndexAfterSend(p)
               /\ notifications' = InternalNotifyRecipient(
                      notifications, pr.recipient, p, delivered)
          ELSE UNCHANGED <<lockers, parcels, parcelObj, notifications>>

\* receive_parcel without the comparison of the recipients
ReceiveOutcomeAnyRecipient(t, recipient, user_id) ==
    LET g == CheckSecurity(user_id)
        pr == parcelObj[t]
        i == LockerByNumber(pr.locker_number)
    IN IF ~g.allowed THEN g.msg
       ELSE IF ~g.oper THEN "not_working"
       ELSE IF ~InIndex(t) THEN "not_found"
       ELSE IF pr.status # "IN_POSTOMAT" THEN "wrong_status"
       ELSE IF IsExpired(pr) THEN "expired"
       ELSE IF i = None THEN "locker_not_found"
       ELSE IF OpenError(lockers[i]) \/ TakeParcelError(lockers[i])
       THEN "locker_error"
       ELSE "received"

\* "not_found": Посылка ... не найдена
\* "unauthorized": У вас нет прав на получение этой посылки
\* "wrong_status": Посылка не готова к выдаче (статус: ...)
\* "expired": Срок хранения посылки истек
\* "locker_not_found": Ошибка: ячейка не найдена
\* "locker_error": Ошибка при получении: ...
\* "received": Посылка ... получена
ReceiveOutcome(t, recipient, user_id) ==
    LET g == CheckSecurity(user_id)
        pr == parcelObj[t]
        i == LockerByNumber(pr.locker_number)
    IN IF ~g.allowed THEN g.msg
       ELSE IF ~g.oper THEN "not_working"
       ELSE IF ~InIndex(t) THEN "not_found"
       ELSE IF pr.recipient # recipient THEN "unauthorized"
       ELSE IF pr.status # "IN_POSTOMAT" THEN "wrong_status"
       ELSE IF IsExpired(pr) THEN "expired"
       ELSE IF i = None THEN "locker_not_found"
       ELSE IF OpenError(lockers[i]) \/ TakeParcelError(lockers[i])
       THEN "locker_error"
       ELSE "received"

ReceiveParcel(t, recipient, user_id) ==
    LET g == CheckSecurity(user_id)
        pr == parcelObj[t]
        i == LockerByNumber(pr.locker_number)
        out == ReceiveOutcome(t, recipient, user_id)
        logged == LogSecurityAlert([alerts |-> g.alerts, oper |-> g.oper],
                                   "unauthorized_access")
    IN /\ user_operations' = g.ops
       /\ security_alerts' = IF out = "unauthorized" THEN logged.alerts ELSE g.alerts
       /\ is_operational' = IF out = "unauthorized" THEN logged.oper ELSE g.oper
       /\ UNCHANGED <<generator, phone, calls, total_lockers, security_level, maintenance_log, now,
                      notifications>>
       /\ IF out = "expired"
          THEN /\ parcelObj' = [parcelObj EXCEPT ![t].status = "EXPIRED"]
               /\ UNCHANGED <<lockers, parcels>>
          ELSE IF out = "received"
          THEN LET received == lockers[i].current_parcel
               IN /\ lockers' = [lockers EXCEPT ![i] = TakeParcel(lockers[i])]
                  /\ parcelObj' = [parcelObj EXCEPT
                                     ![received] = Deliver(parcelObj[received])]
                  /\ parcels' = IndexAfterReceive(t)
          ELSE UNCHANGED <<lockers, parcels, parcelObj>>

\* notify_recipient without the lookup of the code in the index
NotifyOutcomeAnyCode(t, user_id, delivered) ==
    LET g == CheckSecurity(user_id)
    IN IF ~g.allowed THEN g.msg
       ELSE IF delivered THEN "notified"
       ELSE "notify_failed"

\* "notified": Уведомление отправлено ...
\* "notify_failed": Не удалось отправить уведомление
NotifyOutcome(t, user_id, delivered) ==
    LET g == CheckSecurity(user_id)
    IN IF ~g.allowed THEN g.msg
       ELSE IF ~InIndex(t) THEN "not_found"
       ELSE IF delivered THEN "notified"
       ELSE "notify_failed"

NotifyRecipient(t, user_id, delivered) ==
    LET g == CheckSecurity(user_id)
        out == NotifyOutcome(t, user_id, delivered)
    IN /\ user_operations' = g.ops
       /\ security_alerts' = g.alerts
       /\ is_operational' = g.oper
       /\ UNCHANGED <<generator, phone, calls, total_lockers, security_level, maintenance_log, now,
                      lockers, parcels, parcelObj>>
       /\ IF out \in {"notified", "notify_failed"}
          THEN notifications' = InternalNotifyRecipient(
                   notifications, parcelObj[t].recipient, t, delivered)
          ELSE UNCHANGED notifications

\* The lockers that are out of order, in bank order.
BrokenLockers == { i \in DOMAIN lockers : ~lockers[i].is_functional }

\* perform_maintenance without the test of the name of the technician
PerformMaintenanceAnyTechnician(technician, repaired) ==
    /\ repaired \subseteq BrokenLockers
    /\ UNCHANGED <<generator, phone, calls, total_lockers, security_level, is_operational,
                   security_alerts, user_operations, parcels, notifications,
                   parcelObj, now>>
    /\ IF FALSE
       THEN UNCHANGED <<lockers, maintenance_log>>
       ELSE LET after == [i \in DOMAIN lockers |->
                            IF i \in repaired THEN Repair(lockers[i])
                            ELSE lockers[i]]
                report ==
                    [technician |-> technician,
                     lockers_checked |-> Len(lockers),
                     broken_before |-> Cardinality(BrokenLockers),
                     broken_after |->
                         Cardinality({i \in DOMAIN after : ~after[i].is_functional}),
                     lockers_repaired |-> Cardinality(repaired),
                     failed_repairs |-> Cardinality(BrokenLockers \ repaired)]
            IN /\ lockers' = after
               /\ maintenance_log' = Append(maintenance_log, report)

\* repaired: the broken lockers whose draw random.random() < 0.85 succeeds.
PerformMaintenance(technician, repaired) ==
    /\ repaired \subseteq BrokenLockers
    /\ UNCHANGED <<generator, phone, calls, total_lockers, security_level, is_operational,
                   security_alerts, user_operations, parcels, notifications,
                   parcelObj, now>>
    /\ IF technician = ""
       THEN UNCHANGED <<lockers, maintenance_log>>
       ELSE LET after == [i \in DOMAIN lockers |->
                            IF i \in repaired THEN Repair(lockers[i])
                            ELSE lockers[i]]
                report ==
                    [technician |-> technician,
                     lockers_checked |-> Len(lockers),
                     broken_before |-> Cardinality(BrokenLockers),
                     broken_after |->
                         Cardinality({i \in DOMAIN after : ~after[i].is_functional}),
                     lockers_repaired |-> Cardinality(repaired),
                     failed_repairs |-> Cardinality(BrokenLockers \ repaired)]
            IN /\ lockers' = after
               /\ maintenance_log' = Append(maintenance_log, report)

\* The choice of break_random_locker without the test of is_occupied
BreakableLockersAnyOccupancy ==
    { i \in DOMAIN lockers : lockers[i].is_functional }

\* The lockers random.choice picks from.
BreakableLockers ==
    { i \in DOMAIN lockers : lockers[i].is_functional /\ ~lockers[i].is_occupied }

\* "broken": Ячейка ... сломана
\* "none_to_break": Нет исправных свободных ячеек для поломки
BreakOutcome == IF BreakableLockers = {} THEN "none_to_break" ELSE "broken"

\* choice: the position random.choice would pick.
BreakRandomLocker(choice) ==
    /\ UNCHANGED <<generator, phone, calls, total_lockers, security_level, user_operations, parcels,
                   notifications, maintenance_log, parcelObj, now>>
    /\ IF BreakableLockers = {}
       THEN UNCHANGED <<lockers, security_alerts, is_operational>>
       ELSE /\ choice \in BreakableLockers
            /\ lockers' = [lockers EXCEPT ![choice].is_functional = FALSE]
            /\ LET logged == LogSecurityAlert(
                       [alerts |-> security_alerts, oper |-> is_operational],
                       "manual_failure")
               IN /\ security_alerts' = logged.alerts
                  /\ is_operational' = logged.oper

\* reset_security without the clearing of the counters
ResetSecurityKeepsCounters ==
    /\ is_operational' = TRUE
    /\ security_alerts' = <<>>
    /\ UNCHANGED <<generator, phone, calls, total_lockers, security_level, user_operations, lockers,
                   parcels, notifications, maintenance_log, parcelObj, now>>

ResetSecurity ==
    /\ is_operational' = TRUE
    /\ security_alerts' = <<>>
    /\ user_operations' = EmptyDict
    /\ UNCHANGED <<generator, phone, calls, total_lockers, security_level, lockers, parcels,
                   notifications, maintenance_log, parcelObj, now>>

\* The sweep without the test of the status
ExpiredNowAnyStatus ==
    SelectSeq(parcels, LAMBDA t : IsExpired(parcelObj[t]))

\* The indexed parcels the sweep finds expired, in the order of the index.
ExpiredNow ==
    SelectSeq(parcels, LAMBDA t : /\ IsExpired(parcelObj[t])
                                  /\ parcelObj[t].status = "IN_POSTOMAT")

RECURSIVE NotifySenders(_, _, _)
\* One notification to the sender per expired parcel, in order; delivered is
\* the set of parcels whose notification Notification.send delivers.
NotifySenders(history, expired, delivered) ==
    IF expired = <<>> THEN history
    ELSE NotifySenders(
             InternalNotifyRecipient(history, parcelObj[Head(expired)].sender,
                                     Head(expired), Head(expired) \in delivered),
             Tail(expired), delivered)

CheckExpiredParcels(delivered) ==
    LET expired == ExpiredNow
        codes == { expired[k] : k \in DOMAIN expired }
    IN /\ delivered \subseteq codes
       /\ parcelObj' = [t \in DOMAIN parcelObj |->
                          IF t \in codes
                          THEN [parcelObj[t] EXCEPT !.status = "EXPIRED"]
                          ELSE parcelObj[t]]
       /\ notifications' = NotifySenders(notifications, expired, delivered)
       /\ UNCHANGED <<generator, phone, calls, total_lockers, security_level, is_operational,
                      security_alerts, user_operations, lockers, parcels,
                      maintenance_log, now>>

\* A locker goes out of order while in service, whether it holds a parcel or
\* not: locker.is_functional = False, as the tests of the locker faults set it.
LockerFails(i) ==
    /\ i \in DOMAIN lockers
    /\ lockers[i].is_functional
    /\ lockers' = [lockers EXCEPT ![i].is_functional = FALSE]
    /\ UNCHANGED <<generator, phone, calls, total_lockers, security_level, is_operational,
                   security_alerts, user_operations, parcels, notifications,
                   maintenance_log, parcelObj, now>>

\* The clock: ClockStep days pass.
Tick ==
    /\ now' = now + ClockStep
    /\ UNCHANGED <<generator, phone, calls, total_lockers, security_level, is_operational,
                   security_alerts, user_operations, lockers, parcels,
                   notifications, maintenance_log, parcelObj>>

----------------------------------------------------------------------------
(* The station under the bounds of the model *)

\* The largest count of the dict, 0 when it is empty.
MaxCount(ops) ==
    IF DOMAIN ops = {} THEN 0
    ELSE LET top == CHOOSE u \in DOMAIN ops : \A v \in DOMAIN ops : ops[v] <= ops[u]
         IN ops[top]

\* The three histories together.
HistoryLen(alerts, notes, reports) == Len(alerts) + Len(notes) + Len(reports)

\* The step stays within: maxOps calls per user between two resets,
\* maxHistory entries in the three histories together, the clock at maxTime.
Bounded(maxOps, maxHistory, maxTime) ==
    /\ MaxCount(user_operations') <= maxOps
    /\ HistoryLen(security_alerts', notifications', maintenance_log') <= maxHistory
    /\ now' <= maxTime

Next ==
    \/ \E p \in Tracking, d \in BOOLEAN :
           SendParcel(p, "u1", d) /\ Bounded(MaxOps, MaxHistory, MaxTime)
    \/ \E t \in Tracking, r \in Recipients :
           ReceiveParcel(t, r, "u1") /\ Bounded(MaxOps, MaxHistory, MaxTime)
    \/ \E t \in Tracking, d \in BOOLEAN :
           NotifyRecipient(t, "u1", d) /\ Bounded(MaxOps, MaxHistory, MaxTime)
    \/ \E tech \in Technicians, rep \in SUBSET BrokenLockers :
           PerformMaintenance(tech, rep) /\ Bounded(MaxOps, MaxHistory, MaxTime)
    \/ \E c \in BreakableLockers \cup {None} :
           BreakRandomLocker(c) /\ Bounded(MaxOps, MaxHistory, MaxTime)
    \/ ResetSecurity /\ Bounded(MaxOps, MaxHistory, MaxTime)
    \/ \E dl \in SUBSET Tracking :
           CheckExpiredParcels(dl) /\ Bounded(MaxOps, MaxHistory, MaxTime)
    \/ Tick /\ Bounded(MaxOps, MaxHistory, MaxTime)

Spec == Init /\ [][Next]_vars

----------------------------------------------------------------------------
(* The security gate at work: a station of one locker, one parcel going    *)
(* through it, user u1 calling up to MaxOpsSec times and user u2 up to     *)
(* MaxOpsOther times between two resets, no notification delivered.        *)

InitSec ==
    /\ Init
    /\ total_lockers = 1
    /\ \A t \in Tracking : parcelObj[t].size = "SMALL"

BoundedSec ==
    /\ Bounded(MaxOpsSec, MaxAlertsSec, MaxTime)
    /\ "u2" \in DOMAIN user_operations' => user_operations'["u2"] <= MaxOpsOther

NextSec ==
    \/ \E u \in Users : SendParcel(1, u, FALSE) /\ BoundedSec
    \/ \E r \in Recipients, u \in Users : ReceiveParcel(1, r, u) /\ BoundedSec
    \/ \E u \in Users : NotifyRecipient(1, u, FALSE) /\ BoundedSec
    \/ ResetSecurity /\ BoundedSec
    \/ Tick /\ BoundedSec

SpecSec == InitSec /\ [][NextSec]_vars

----------------------------------------------------------------------------
(* The station through a lock and a reset: a bank of two lockers, one      *)
(* parcel of any size going through it, every operation open to user u1,   *)
(* up to MaxOpsLock calls between two resets and MaxHistoryLock entries in *)
(* the three histories together.                                           *)

InitLock ==
    /\ Init
    /\ total_lockers = 2
    /\ \A t \in Tracking \ {1} : parcelObj[t].size = "SMALL"

BoundedLock == Bounded(MaxOpsLock, MaxHistoryLock, MaxTime)

NextLock ==
    \/ \E d \in BOOLEAN : SendParcel(1, "u1", d) /\ BoundedLock
    \/ \E r \in Recipients : ReceiveParcel(1, r, "u1") /\ BoundedLock
    \/ \E d \in BOOLEAN : NotifyRecipient(1, "u1", d) /\ BoundedLock
    \/ \E tech \in Technicians, rep \in SUBSET BrokenLockers :
           PerformMaintenance(tech, rep) /\ BoundedLock
    \/ \E c \in BreakableLockers \cup {None} :
           BreakRandomLocker(c) /\ BoundedLock
    \/ ResetSecurity /\ BoundedLock
    \/ \E dl \in SUBSET {1} : CheckExpiredParcels(dl) /\ BoundedLock
    \/ Tick /\ BoundedLock

SpecLock == InitLock /\ [][NextLock]_vars

----------------------------------------------------------------------------
(* The security gate with lockers failing: the station of SpecSec, where   *)
(* break_random_locker logs its alerts next to those of the gate.          *)

NextAlert ==
    \/ NextSec
    \/ \E c \in BreakableLockers \cup {None} : BreakRandomLocker(c) /\ BoundedSec

SpecAlert == InitSec /\ [][NextAlert]_vars

----------------------------------------------------------------------------
(* The station with lockers that go out of order in service: the bank and  *)
(* the parcel of SpecLock, sends whose notification fails, receives,       *)
(* sweeps and resets, and any locker failing at any time.                  *)

NextFault ==
    \/ SendParcel(1, "u1", FALSE) /\ BoundedLock
    \/ \E r \in Recipients : ReceiveParcel(1, r, "u1") /\ BoundedLock
    \/ ResetSecurity /\ BoundedLock
    \/ \E dl \in SUBSET {1} : CheckExpiredParcels(dl) /\ BoundedLock
    \/ \E i \in DOMAIN lockers : LockerFails(i) /\ BoundedLock
    \/ Tick /\ BoundedLock

SpecFault == InitLock /\ [][NextFault]_vars

----------------------------------------------------------------------------
(* The care of the bank: lockers break and are repaired while a parcel is    *)
(* sent and its recipient notified.                                        *)

NextCare ==
    \/ \E d \in BOOLEAN : SendParcel(1, "u1", d) /\ BoundedLock
    \/ \E d \in BOOLEAN : NotifyRecipient(1, "u1", d) /\ BoundedLock
    \/ \E tech \in Technicians, rep \in SUBSET BrokenLockers :
           PerformMaintenance(tech, rep) /\ BoundedLock
    \/ \E c \in BreakableLockers \cup {None} :
           BreakRandomLocker(c) /\ BoundedLock
    \/ ResetSecurity /\ BoundedLock

SpecCare == InitLock /\ [][NextCare]_vars

----------------------------------------------------------------------------
(* The sweep for expired parcels over parcels stored at different times.   *)

NextSweep ==
    \/ \E p \in Tracking : SendParcel(p, "u1", FALSE) /\ BoundedLock
    \/ ResetSecurity /\ BoundedLock
    \/ \E dl \in SUBSET Tracking : CheckExpiredParcels(dl) /\ BoundedLock
    \/ Tick /\ BoundedLock

SpecSweep == InitLock /\ [][NextSweep]_vars

----------------------------------------------------------------------------
(* The lockers called directly, as the tests of Locker call them: any      *)
(* parcel is put into any locker, lockers are emptied and fail.            *)

\* lockers[i].put_parcel(parcel p): LockerError and nothing written, or the
\* locker and the parcel bound to one another.
LockerPutParcel(i, p) ==
    /\ i \in DOMAIN lockers
    /\ IF PutParcelError(lockers[i], parcelObj[p])
       THEN UNCHANGED <<lockers, parcelObj>>
       ELSE /\ lockers' = [lockers EXCEPT ![i] = PutParcel(lockers[i], p)]
            /\ parcelObj' = [parcelObj EXCEPT
                               ![p] = PlaceInLocker(parcelObj[p], lockers[i].number)]
    /\ UNCHANGED <<generator, phone, calls, total_lockers, security_level,
                   is_operational, security_alerts, user_operations, parcels,
                   notifications, maintenance_log, now>>

\* lockers[i].take_parcel(): LockerError and nothing written, or the locker
\* emptied.
LockerTakeParcel(i) ==
    /\ i \in DOMAIN lockers
    /\ IF TakeParcelError(lockers[i])
       THEN UNCHANGED lockers
       ELSE lockers' = [lockers EXCEPT ![i] = TakeParcel(lockers[i])]
    /\ UNCHANGED <<generator, phone, calls, total_lockers, security_level,
                   is_operational, security_alerts, user_operations, parcels,
                   notifications, maintenance_log, parcelObj, now>>

NextLocker ==
    \/ \E i \in DOMAIN lockers, p \in Tracking :
           LockerPutParcel(i, p) /\ BoundedLock
    \/ \E i \in DOMAIN lockers : LockerTakeParcel(i) /\ BoundedLock
    \/ \E i \in DOMAIN lockers : LockerFails(i) /\ BoundedLock
    \/ Tick /\ BoundedLock

SpecLocker == InitLock /\ [][NextLocker]_vars

----------------------------------------------------------------------------
(* The operations that pass no gate, on the station of SpecLock: sends     *)
(* whose notification fails, receives and resets, which store a parcel and *)
(* lock and unlock the station, and maintenance, break_random_locker and   *)
(* the sweep in between.                                                   *)

NextOpen ==
    \/ SendParcel(1, "u1", FALSE) /\ BoundedLock
    \/ \E r \in Recipients : ReceiveParcel(1, r, "u1") /\ BoundedLock
    \/ \E tech \in Technicians, rep \in SUBSET BrokenLockers :
           PerformMaintenance(tech, rep) /\ BoundedLock
    \/ \E c \in BreakableLockers \cup {None} :
           BreakRandomLocker(c) /\ BoundedLock
    \/ ResetSecurity /\ BoundedLock
    \/ \E dl \in SUBSET {1} : CheckExpiredParcels(dl) /\ BoundedLock
    \/ Tick /\ BoundedLock

SpecOpen == InitLock /\ [][NextOpen]_vars

----------------------------------------------------------------------------
(* send_parcel step by step, several calls at once without a lock: the     *)
(* call for parcel p, by user u1, takes the steps gate, duplicate check,   *)
(* locker scan, bind, index registration and notification, each of them    *)
(* atomic, and calls for different parcels interleave.                     *)

Caller == "u1"

StationFrame ==
    UNCHANGED <<generator, phone, total_lockers, security_level,
                maintenance_log, now>>

\* send_parcel(parcel p, Caller) is called.
BeginSend(p) ==
    /\ calls[p].pc = "idle"
    /\ calls' = [calls EXCEPT ![p].pc = "gate"]
    /\ StationFrame
    /\ UNCHANGED <<is_operational, security_alerts, user_operations, lockers,
                   parcels, notifications, parcelObj>>

\* _check_security and the test of is_operational
GateStep(p) ==
    LET g == CheckSecurity(Caller)
    IN /\ calls[p].pc = "gate"
       /\ user_operations' = g.ops
       /\ security_alerts' = g.alerts
       /\ is_operational' = g.oper
       /\ calls' = [calls EXCEPT
                      ![p].pc = IF g.allowed /\ g.oper THEN "dup" ELSE "done",
                      ![p].result = IF ~g.allowed THEN g.msg
                                    ELSE IF ~g.oper THEN "not_working"
                                    ELSE "none"]
       /\ StationFrame
       /\ UNCHANGED <<lockers, parcels, notifications, parcelObj>>

\* parcel.tracking_number in self.parcels
DuplicateStep(p) ==
    /\ calls[p].pc = "dup"
    /\ calls' = [calls EXCEPT
                   ![p].pc = IF AlreadyInPostomat(p) THEN "done" ELSE "scan",
                   ![p].result = IF AlreadyInPostomat(p) THEN "duplicate"
                                 ELSE "none"]
    /\ StationFrame
    /\ UNCHANGED <<is_operational, security_alerts, user_operations, lockers,
                   parcels, notifications, parcelObj>>

\* locker = self.find_available_locker(parcel.size)
ScanStep(p) ==
    LET i == FindAvailableLocker(parcelObj[p].size)
    IN /\ calls[p].pc = "scan"
       /\ calls' = [calls EXCEPT
                      ![p].pc = IF i = None THEN "done" ELSE "bind",
                      ![p].locker = i,
                      ![p].result = IF i = None THEN "no_locker" ELSE "none"]
       /\ StationFrame
       /\ UNCHANGED <<is_operational, security_alerts, user_operations,
                      lockers, parcels, notifications, parcelObj>>

\* locker.put_parcel(parcel), or LockerError
BindStep(p) ==
    LET i == calls[p].locker
    IN /\ calls[p].pc = "bind"
       /\ IF PutParcelError(lockers[i], parcelObj[p])
          THEN /\ calls' = [calls EXCEPT ![p].pc = "done",
                                          ![p].result = "locker_error"]
               /\ UNCHANGED <<lockers, parcelObj>>
          ELSE /\ calls' = [calls EXCEPT ![p].pc = "index"]
               /\ lockers' = [lockers EXCEPT ![i] = PutParcel(lockers[i], p)]
               /\ parcelObj' = [parcelObj EXCEPT
                                  ![p] = PlaceInLocker(parcelObj[p],
                                                       lockers[i].number)]
       /\ StationFrame
       /\ UNCHANGED <<is_operational, security_alerts, user_operations,
                      parcels, notifications>>

\* self.parcels[parcel.tracking_number] = parcel
IndexStep(p) ==
    /\ calls[p].pc = "index"
    /\ parcels' = IndexAfterSend(p)
    /\ calls' = [calls EXCEPT ![p].pc = "notify"]
    /\ StationFrame
    /\ UNCHANGED <<is_operational, security_alerts, user_operations, lockers,
                   notifications, parcelObj>>

\* self._notify_recipient(...) and the return of the success
NotifyStep(p, delivered) ==
    /\ calls[p].pc = "notify"
    /\ notifications' = InternalNotifyRecipient(
           notifications, parcelObj[p].recipient, p, delivered)
    /\ calls' = [calls EXCEPT ![p].pc = "done", ![p].result = "sent"]
    /\ StationFrame
    /\ UNCHANGED <<is_operational, security_alerts, user_operations, lockers,
                   parcels, parcelObj>>

NextRace ==
    \/ \E p \in Tracking : BeginSend(p)
    \/ \E p \in Tracking : GateStep(p)
    \/ \E p \in Tracking : DuplicateStep(p)
    \/ \E p \in Tracking : ScanStep(p)
    \/ \E p \in Tracking : BindStep(p)
    \/ \E p \in Tracking : IndexStep(p)
    \/ \E p \in Tracking, d \in BOOLEAN : NotifyStep(p, d)

SpecRace == InitLock /\ [][NextRace]_vars

----------------------------------------------------------------------------
(* The construction of a station *)

\* No Postomat object exists yet.
NoStation ==
    /\ total_lockers = 0
    /\ security_level = "MEDIUM"
    /\ is_operational = FALSE
    /\ security_alerts = <<>>
    /\ user_operations = EmptyDict
    /\ lockers = <<>>
    /\ parcels = <<>>
    /\ notifications = <<>>
    /\ maintenance_log = <<>>

\* __init__ with "<=" mistyped as "<"
PostomatRejectsBelowZero(postomat_id, address, n) ==
    postomat_id = "" \/ address = "" \/ n < 0

\* The two ValueErrors of __init__.
PostomatRejects(postomat_id, address, n) ==
    postomat_id = "" \/ address = "" \/ n <= 0

\* Postomat(postomat_id, address, n, level): the object exists afterwards
\* unless __init__ raises.
NewPostomat(postomat_id, address, n, level) ==
    /\ NoStation
    /\ IF PostomatRejects(postomat_id, address, n)
       THEN UNCHANGED <<total_lockers, security_level, is_operational,
                        security_alerts, user_operations, lockers, parcels,
                        notifications, maintenance_log>>
       ELSE /\ total_lockers' = n
            /\ security_level' = level
            /\ is_operational' = TRUE
            /\ security_alerts' = <<>>
            /\ user_operations' = EmptyDict
            /\ lockers' \in CreateLockers(n)
            /\ parcels' = <<>>
            /\ notifications' = <<>>
            /\ maintenance_log' = <<>>
    /\ UNCHANGED <<generator, parcelObj, now, phone, calls>>

PostomatIds == {"", "PM001"}
Addresses == {"", "Central 15"}
LockerCounts == (0 - 1) .. MaxBank

InitNew ==
    /\ NoStation
    /\ parcelObj = <<>>
    /\ now = 0
    /\ existing_trackings = {}
    /\ issued = <<>>
    /\ retries = 0
    /\ phone = NormalizePhone(SenderPhone)
    /\ calls = NoCalls

NextNew ==
    \E postomat_id \in PostomatIds, address \in Addresses,
       n \in LockerCounts, level \in SecurityLevels :
        NewPostomat(postomat_id, address, n, level)

SpecNew == InitNew /\ [][NextNew]_vars

----------------------------------------------------------------------------
(* The construction of a person *)

\* The ways a number is entered: the four formats, and two that are none.
EnteredPrefixes ==
    { <<"+", "3", "7", "5">>, <<"3", "7", "5">>, <<"8", "0">>, <<"8">>,
      <<"+", "3", "7">>, <<"9">> }

\* Operator codes, five of the list and twenty that are not in it.
EnteredOperators == { <<a, b>> : a, b \in {"2", "3", "4", "5", "9"} }

\* Subscriber numbers of seven digits, and some of six and of eight.
EnteredSubscribers ==
    { <<"1", "2", "3", "4", "5", a, b>> : a, b \in {"0", "6", "7"} }
        \cup { <<"1", "2", "3", "4", "5", "6">>,
               <<"1", "2", "3", "4", "5", "6", "7", "8">> }

\* What is typed between the prefix and the rest.
EnteredSeparators == { <<>>, <<" ">>, <<"-">>, <<"(">>, <<")", " ">> }

EnteredPhones ==
    { pre \o sep \o op \o sub :
        pre \in EnteredPrefixes, sep \in EnteredSeparators,
        op \in EnteredOperators, sub \in EnteredSubscribers }

InitPerson ==
    /\ InitStation(1, "MEDIUM")
    /\ parcelObj = <<>>
    /\ now = 0
    /\ existing_trackings = {}
    /\ issued = <<>>
    /\ retries = 0
    /\ phone = NoPerson
    /\ calls = NoCalls

NextPerson == \E ph \in EnteredPhones : NewPerson(ph)

SpecPerson == InitPerson /\ [][NextPerson]_vars

----------------------------------------------------------------------------
(* The generator of tracking numbers from the start of the process *)

InitTrack ==
    /\ InitStation(1, "MEDIUM")
    /\ parcelObj = <<>>
    /\ now = 0
    /\ existing_trackings = {}
    /\ issued = <<>>
    /\ retries = 0
    /\ phone = NormalizePhone(SenderPhone)
    /\ calls = NoCalls

BoundedTrack ==
    /\ Len(issued') <= MaxParcels
    /\ retries' <= MaxRetries

NextTrack ==
    \E prefix \in Prefixes, numbers \in NumberDraws :
        GenerateUniqueTracking(prefix, numbers) /\ BoundedTrack

SpecTrack == InitTrack /\ [][NextTrack]_vars

----------------------------------------------------------------------------
(* Properties of the station *)

\* The size classes, largest first: <<a, b>> is here iff a >= b.
SizeAtLeast ==
    {<<"SMALL", "SMALL">>, <<"MEDIUM", "SMALL">>, <<"MEDIUM", "MEDIUM">>,
     <<"LARGE", "SMALL">>, <<"LARGE", "MEDIUM">>, <<"LARGE", "LARGE">>}

Holds(i, t) == lockers[i].current_parcel = t
Resident(t) == \E i \in DOMAIN lockers : Holds(i, t)
StatusOf(t) == parcelObj[t].status

\* C1: every occupied locker is at least as large as the parcel in it.
C1_LockerFitsParcel ==
    \A i \in DOMAIN lockers :
        lockers[i].is_occupied =>
            <<lockers[i].size, parcelObj[lockers[i].current_parcel].size>>
                \in SizeAtLeast

\* A small parcel was bound into a large locker.
C1_Witness ==
    \E i \in DOMAIN lockers :
        /\ lockers[i].is_occupied
        /\ lockers[i].size = "LARGE"
        /\ parcelObj[lockers[i].current_parcel].size = "SMALL"

\* C2: a tracking code is a key of the index iff some locker holds its parcel.
C2_IndexIffResident ==
    \A t \in Tracking : InIndex(t) <=> Resident(t)

\* One parcel is stored while another has been received.
C2_Witness ==
    \E t, u \in Tracking :
        /\ InIndex(t) /\ Resident(t)
        /\ StatusOf(u) = "DELIVERED" /\ ~InIndex(u)

\* C3 as stated: the parcel in a locker carries the locker's number and is
\* IN_POSTOMAT.
C3_ResidentInStation ==
    \A i \in DOMAIN lockers :
        lockers[i].current_parcel # None =>
            /\ parcelObj[lockers[i].current_parcel].locker_number = lockers[i].number
            /\ StatusOf(lockers[i].current_parcel) = "IN_POSTOMAT"

\* C3, amended: the parcel in a locker carries the locker's number and is
\* IN_POSTOMAT or, once expired, EXPIRED.
C3_ResidentInStationOrExpired ==
    \A i \in DOMAIN lockers :
        lockers[i].current_parcel # None =>
            /\ parcelObj[lockers[i].current_parcel].locker_number = lockers[i].number
            /\ StatusOf(lockers[i].current_parcel) \in {"IN_POSTOMAT", "EXPIRED"}

\* A locker holds an expired parcel.
C3_Witness ==
    \E i \in DOMAIN lockers :
        /\ lockers[i].current_parcel # None
        /\ StatusOf(lockers[i].current_parcel) = "EXPIRED"

\* C4: a locker is occupied exactly when it holds a parcel, no parcel is held
\* by two lockers, and send does not bind a parcel that is in the index.
C4_OneParcelOneLocker ==
    /\ \A i \in DOMAIN lockers :
           lockers[i].is_occupied <=> lockers[i].current_parcel # None
    /\ \A i, j \in DOMAIN lockers :
           (i # j /\ lockers[i].current_parcel # None)
               => lockers[i].current_parcel # lockers[j].current_parcel
    /\ \A t \in Tracking, u \in Users :
           InIndex(t) => SendOutcome(t, u) # "sent"

\* Two lockers are occupied, by two parcels, with no locker left.
C4_Witness ==
    /\ Len(lockers) > 1
    /\ \A i \in DOMAIN lockers : lockers[i].is_occupied
    /\ \E t \in Tracking : InIndex(t) /\ SendOutcome(t, "u1") = "duplicate"

\* The parcels whose last lifecycle event is a placement by send.
InStation == { t \in Tracking : StatusOf(t) = "IN_POSTOMAT" }

\* The parcels whose last lifecycle event is an expiry.
Expired == { t \in Tracking : StatusOf(t) = "EXPIRED" }

\* C5 as stated: the index has as many entries as there are parcels sent and
\* since neither received nor expired.
C5_IndexCountsUnexpired == Len(parcels) = Cardinality(InStation)

\* C5, amended: the index has as many entries as there are parcels sent and
\* not received since, the expired ones among them.
C5_IndexCountsUnreceived == Len(parcels) = Cardinality(InStation \cup Expired)

\* The index holds two parcels, one of them expired.
C5_Witness ==
    /\ Len(parcels) = 2
    /\ Cardinality(Expired) = 1
    /\ Cardinality(InStation) = 1

\* C6: a delivered parcel stays delivered and out of every locker.
C6_DeliveredIsTerminal ==
    [][\A t \in Tracking :
          StatusOf(t) = "DELIVERED" =>
              /\ parcelObj'[t].status = "DELIVERED"
              /\ \A i \in DOMAIN lockers : lockers'[i].current_parcel # t]_vars

\* C7: an expired parcel stays expired; send and receive reject it.
C7_ExpiredIsTerminal ==
    [][\A t \in Tracking :
          StatusOf(t) = "EXPIRED" =>
              /\ parcelObj'[t].status = "EXPIRED"
              /\ \A u \in Users : SendOutcome(t, u) # "sent"
              /\ \A u \in Users, r \in Recipients :
                     ReceiveOutcome(t, r, u) # "received"]_vars

\* A parcel is expired and its recipient's receive is turned down for its state.
C7_Witness ==
    \E t \in Tracking :
        /\ StatusOf(t) = "EXPIRED"
        /\ ReceiveOutcome(t, parcelObj[t].recipient, "u1") = "wrong_status"
        /\ SendOutcome(t, "u1") = "duplicate"

----------------------------------------------------------------------------
(* Properties of the security gate *)

\* The count the dict holds for the user, 0 when it holds none.
CountOf(u) == IF u \in DOMAIN user_operations THEN user_operations[u] ELSE 0

GateDenials == {"blocked", "suspicious"}

\* The alerts of the type in the log.
AlertsOfType(alerts, type) ==
    Cardinality({k \in DOMAIN alerts : alerts[k] = type})

\* What C8 says of a call by u that returns out, at security level HIGH.
C8_GateAtHigh(u, out) ==
    /\ (is_operational /\ CountOf(u) < SuspiciousThreshold) =>
           /\ out \notin GateDenials
           /\ user_operations'[u] = CountOf(u) + 1
    /\ (is_operational /\ CountOf(u) >= SuspiciousThreshold) =>
           /\ out = "suspicious"
           /\ security_alerts' = Append(security_alerts, "suspicious_activity")
           /\ ~is_operational'
           /\ UNCHANGED <<lockers, parcels, parcelObj, notifications>>
    /\ ~is_operational =>
           /\ out = "blocked"
           /\ ~is_operational'
           /\ UNCHANGED <<lockers, parcels, parcelObj, notifications>>

C9_GateBelowHigh(u, out) ==
    CountOf(u) >= SuspiciousThreshold =>
        /\ AlertsOfType(security_alerts', "suspicious_activity")
               = AlertsOfType(security_alerts, "suspicious_activity") + 1
        /\ out \notin GateDenials
        /\ is_operational'

\* C9: at level LOW or MEDIUM, a call that takes the user's count above 50
\* appends one suspicious_activity alert, passes the gate and leaves the
\* station operational.
C9_LowMediumOnlyLogs ==
    [][security_level # "HIGH" =>
          /\ \A u \in Users, p \in Tracking, d \in BOOLEAN :
                 SendParcel(p, u, d) => C9_GateBelowHigh(u, SendOutcome(p, u))
          /\ \A u \in Users, t \in Tracking, r \in Recipients :
                 ReceiveParcel(t, r, u) => C9_GateBelowHigh(u, ReceiveOutcome(t, r, u))
          /\ \A u \in Users, t \in Tracking, d \in BOOLEAN :
                 NotifyRecipient(t, u, d) => C9_GateBelowHigh(u, NotifyOutcome(t, u, d))
      ]_vars

\* The 51st and the 52nd call of u1 were logged and the station works.
C9_Witness ==
    /\ security_level \in {"LOW", "MEDIUM"}
    /\ is_operational
    /\ CountOf("u1") = SuspiciousThreshold + 2
    /\ security_alerts = <<"suspicious_activity", "suspicious_activity">>

\* A receive of an indexed parcel by somebody else than its recipient, on a
\* station that is not locked.
C10_WrongRecipient(t, r, u) ==
    /\ ReceiveParcel(t, r, u)
    /\ is_operational
    /\ InIndex(t)
    /\ r # parcelObj[t].recipient

\* C10 as stated: such a receive is refused as unauthorized and appends one
\* alert, whatever the count of the user.
C10_WrongRecipientOneAlert ==
    [][\A t \in Tracking, r \in Recipients, u \in Users :
          C10_WrongRecipient(t, r, u) =>
              /\ ReceiveOutcome(t, r, u) = "unauthorized"
              /\ Len(security_alerts') = Len(security_alerts) + 1]_vars

\* C10, amended: such a receive by a user with fewer than 50 calls counted is
\* refused as unauthorized and appends one alert, unauthorized_access.
C10_WrongRecipientBelowThreshold ==
    [][\A t \in Tracking, r \in Recipients, u \in Users :
          (C10_WrongRecipient(t, r, u) /\ CountOf(u) < SuspiciousThreshold) =>
              /\ ReceiveOutcome(t, r, u) = "unauthorized"
              /\ security_alerts' = Append(security_alerts, "unauthorized_access")
              /\ UNCHANGED <<lockers, parcels, parcelObj>>]_vars

\* The 50th call of u1 was a receive by the wrong recipient.
C10_Witness ==
    /\ CountOf("u1") = SuspiciousThreshold
    /\ security_alerts = <<"unauthorized_access">>
    /\ InIndex(1)

\* The call by u leaves u's count one higher and the other counts as they were.
CountedOnce(u) ==
    /\ u \in DOMAIN user_operations'
    /\ user_operations'[u] = CountOf(u) + 1
    /\ \A v \in DOMAIN user_operations' \ {u} :
           v \in DOMAIN user_operations /\ user_operations'[v] = user_operations[v]

\* The call leaves the lockers, the index, the parcels and the notification
\* history as they were.
StationUntouched == UNCHANGED <<lockers, parcels, parcelObj, notifications>>

\* C11 as stated: every send, receive and notify call leaves the caller's
\* count one higher, whatever its outcome.
C11_EveryCallCounts ==
    \A u \in Users, t \in Tracking :
        /\ ENABLED (SendParcel(t, u, FALSE) /\ CountedOnce(u))
        /\ \A r \in Recipients : ENABLED (ReceiveParcel(t, r, u) /\ CountedOnce(u))
        /\ ENABLED (NotifyRecipient(t, u, FALSE) /\ CountedOnce(u))

\* What C11, amended, says of a call by u that returns out.
C11_Counted(u, out) ==
    /\ is_operational => CountedOnce(u)
    /\ ~is_operational => out = "blocked" /\ UNCHANGED user_operations
    /\ out \in GateDenials => StationUntouched

\* C11, amended: every send, receive and notify call on an operational
\* station leaves the caller's count one higher (1 on first use) and the other
\* counts unchanged, whatever its outcome, and a call the gate denies changes
\* nothing else of the lockers and parcels; a call on a locked station leaves
\* the counts unchanged.
C11_OperationalCallCounts ==
    \A u \in Users, t \in Tracking :
        /\ ENABLED (SendParcel(t, u, FALSE)
                      /\ C11_Counted(u, SendOutcome(t, u)))
        /\ \A r \in Recipients :
               ENABLED (ReceiveParcel(t, r, u)
                          /\ C11_Counted(u, ReceiveOutcome(t, r, u)))
        /\ ENABLED (NotifyRecipient(t, u, FALSE)
                      /\ C11_Counted(u, NotifyOutcome(t, u, FALSE)))

\* The station is locked with the 51st call of u1 counted and one call of u2.
C11_Witness ==
    /\ ~is_operational
    /\ CountOf("u1") = SuspiciousThreshold + 1
    /\ CountOf("u2") = 1

\* C12: a locked station stays locked through every call but reset_security.
C12_LockedUntilReset ==
    [][(~is_operational /\ is_operational') => ResetSecurity]_vars

\* The station was locked and a locker was broken afterwards.
C12_Witness ==
    /\ ~is_operational
    /\ security_alerts = <<"unauthorized_access", "manual_failure">>
    /\ BrokenLockers # {}


\* The call leaves the alert log as it was, too.
NothingStored == StationUntouched /\ UNCHANGED security_alerts

\* C13: on a locked station every send, receive and notify call is denied by
\* the gate as blocked, and leaves the lockers, the index, the parcels, the
\* alert log and the notification history unchanged.
C13_LockedDeniesAll ==
    ~is_operational =>
        \A u \in Users, t \in Tracking, d \in BOOLEAN :
            /\ SendOutcome(t, u) = "blocked"
            /\ ENABLED (SendParcel(t, u, d) /\ NothingStored)
            /\ \A r \in Recipients :
                   /\ ReceiveOutcome(t, r, u) = "blocked"
                   /\ ENABLED (ReceiveParcel(t, r, u) /\ NothingStored)
            /\ NotifyOutcome(t, u, d) = "blocked"
            /\ ENABLED (NotifyRecipient(t, u, d) /\ NothingStored)

\* The station is locked with a parcel stored in it.
C13_Witness ==
    /\ ~is_operational
    /\ InIndex(1)
    /\ Resident(1)
    /\ ReceiveOutcome(1, parcelObj[1].recipient, "u1") = "blocked"

\* The types of the alerts the step appends to the log.
LoggedTypes ==
    { security_alerts'[k] :
        k \in (Len(security_alerts) + 1)..Len(security_alerts') }

SeriousAlerts == {"unauthorized_access", "suspicious_activity"}

\* C14: a step that logs alerts leaves the station locked iff it was locked
\* before or the level is HIGH and one of the alerts is unauthorized_access
\* or suspicious_activity; an alert of another type leaves the flag as it was.
C14_AlertLocksAtHighOnly ==
    [][LoggedTypes # {} =>
          (is_operational' <=>
              /\ is_operational
              /\ ~(security_level = "HIGH" /\ LoggedTypes \cap SeriousAlerts # {}))
      ]_vars

\* At level HIGH a broken locker was logged, the station kept working, and
\* the 51st call of u1 locked it.
C14_Witness ==
    /\ security_level = "HIGH"
    /\ ~is_operational
    /\ security_alerts = <<"manual_failure", "suspicious_activity">>

\* The parcel is stored and due: indexed, IN_POSTOMAT and not expired.
Stored(t) ==
    /\ InIndex(t)
    /\ StatusOf(t) = "IN_POSTOMAT"
    /\ ~IsExpired(parcelObj[t])

\* C15: reset_security, from any state, leaves the station operational, the
\* alert log empty and the dict of counters empty, leaves the lockers, the
\* index, the parcels and the two other histories unchanged, and every parcel
\* that was stored can then be received by its recipient.
C15_ResetFrame ==
    ENABLED
        /\ ResetSecurity
        /\ is_operational'
        /\ security_alerts' = <<>>
        /\ DOMAIN user_operations' = {}
        /\ UNCHANGED <<lockers, parcels, parcelObj, notifications, maintenance_log>>
        /\ \A t \in Tracking, u \in Users :
               Stored(t) =>
                   ReceiveOutcome(t, parcelObj[t].recipient, u)' = "received"

\* A locked station with a broken locker, a parcel stored, and a call counted.
C15_Witness ==
    /\ ~is_operational
    /\ Stored(1)
    /\ BrokenLockers # {}
    /\ CountOf("u1") = 1
    /\ security_alerts = <<"manual_failure", "unauthorized_access">>

\* Some locker is unoccupied, functional and at least as large as the parcel.
HasRoomFor(t) ==
    \E i \in DOMAIN lockers :
        /\ ~lockers[i].is_occupied
        /\ lockers[i].is_functional
        /\ <<lockers[i].size, parcelObj[t].size>> \in SizeAtLeast

\* What a send of p that succeeds leaves behind.
SentState(p) ==
    /\ parcelObj'[p].status = "IN_POSTOMAT"
    /\ \E k \in DOMAIN parcels' : parcels'[k] = p
    /\ \E i \in DOMAIN lockers' :
           lockers'[i].is_occupied /\ lockers'[i].current_parcel = p

\* C16: a send the gate admits fails as a duplicate iff the parcel is in the
\* index; otherwise it fails for want of a locker iff no locker is unoccupied,
\* functional and large enough; otherwise it succeeds and the parcel is
\* IN_POSTOMAT and in the index.
C16_SendOutcomeDecided ==
    \A p \in Tracking, u \in Users :
        CheckSecurity(u).allowed =>
            /\ SendOutcome(p, u) \in {"duplicate", "no_locker", "sent"}
            /\ SendOutcome(p, u) = "duplicate" <=> InIndex(p)
            /\ SendOutcome(p, u) = "no_locker" <=> (~InIndex(p) /\ ~HasRoomFor(p))
            /\ SendOutcome(p, u) = "sent" <=> (~InIndex(p) /\ HasRoomFor(p))
            /\ (~InIndex(p) /\ HasRoomFor(p)) =>
                   \A d \in BOOLEAN : ENABLED (SendParcel(p, u, d) /\ SentState(p))

\* A large parcel is stored, the small locker next to the one it took is
\* free, and another send of the parcel would be a duplicate.
C16_Witness ==
    /\ Stored(1)
    /\ parcelObj[1].size = "LARGE"
    /\ \E i \in DOMAIN lockers : ~lockers[i].is_occupied /\ lockers[i].is_functional
    /\ is_operational
    /\ SendOutcome(1, "u1") = "duplicate"

\* The send of p by u is bound to fail: the station is locked, or the gate
\* denies the call at the threshold, or the parcel is in the index, or no
\* locker has room for it.
SendMustFail(p, u) ==
    \/ ~is_operational
    \/ security_level = "HIGH" /\ CountOf(u) >= SuspiciousThreshold
    \/ InIndex(p)
    \/ ~HasRoomFor(p)

\* C17: a send that fails, whether by the gate, as a duplicate, for want of a
\* locker or by a fault of the locker, leaves the lockers, the index and the
\* parcels unchanged.
C17_FailedSendChangesNothing ==
    \A p \in Tracking, u \in Users, d \in BOOLEAN :
        (SendMustFail(p, u) \/ SendOutcome(p, u) # "sent") =>
            /\ SendOutcome(p, u) # "sent"
            /\ ENABLED (SendParcel(p, u, d) /\ UNCHANGED <<lockers, parcels, parcelObj>>)

\* A locker is out of order, the other is too small for the parcel, and a
\* send has failed for want of a locker.
C17_Witness ==
    /\ BrokenLockers # {}
    /\ \E i \in DOMAIN lockers : lockers[i].is_functional /\ ~lockers[i].is_occupied
    /\ ~InIndex(1)
    /\ StatusOf(1) = "CREATED"
    /\ CountOf("u1") = 1
    /\ SendOutcome(1, "u1") = "no_locker"

\* What a receive of t that succeeds leaves behind.
ReceivedState(t) ==
    /\ parcelObj'[t].status = "DELIVERED"
    /\ \A i \in DOMAIN lockers' :
           /\ lockers'[i].current_parcel # t
           /\ lockers[i].current_parcel = t =>
                  ~lockers'[i].is_occupied /\ lockers'[i].current_parcel = None
    /\ \A k \in DOMAIN parcels' : parcels'[k] # t

\* A receive that succeeds leaves the parcel DELIVERED, its locker empty and
\* the index without it.
ReceiveDelivers ==
    \A t \in Tracking, r \in Recipients, u \in Users :
        ReceiveOutcome(t, r, u) = "received" =>
            ENABLED (ReceiveParcel(t, r, u) /\ ReceivedState(t))

\* C18 as stated: a receive that succeeds leaves the parcel DELIVERED, its
\* locker empty and the index without it, and every receive of a delivered
\* parcel fails as not found.
C18_DeliveredNotFound ==
    /\ ReceiveDelivers
    /\ \A t \in Tracking :
           StatusOf(t) = "DELIVERED" =>
               /\ ~InIndex(t) /\ ~Resident(t)
               /\ \A r \in Recipients, u \in Users :
                      ReceiveOutcome(t, r, u) = "not_found"

\* C18, amended: a receive that succeeds leaves the parcel DELIVERED, its
\* locker empty and the index without it, and every receive of a delivered
\* parcel that the gate admits fails as not found.
C18_DeliveredNotFoundPastGate ==
    /\ ReceiveDelivers
    /\ \A t \in Tracking :
           StatusOf(t) = "DELIVERED" =>
               /\ ~InIndex(t) /\ ~Resident(t)
               /\ \A r \in Recipients, u \in Users :
                      CheckSecurity(u).allowed =>
                          ReceiveOutcome(t, r, u) = "not_found"

\* The parcel was received and a third call by u1 was counted since.
C18_Witness ==
    /\ StatusOf(1) = "DELIVERED"
    /\ CountOf("u1") = 3
    /\ ReceiveOutcome(1, parcelObj[1].recipient, "u1") = "not_found"

\* The index and the lockers agree: a code is in the index iff an occupied
\* locker holds its parcel.
IndexMatchesLockers ==
    \A t \in Tracking :
        InIndex(t) <=>
            \E i \in DOMAIN lockers :
                lockers[i].is_occupied /\ lockers[i].current_parcel = t

\* The locker that holds the parcel is out of order.
HeldOutOfOrder(t) ==
    \E i \in DOMAIN lockers : Holds(i, t) /\ ~lockers[i].is_functional

\* C19: a receive either succeeds, and leaves the locker empty, the parcel
\* DELIVERED and the index without it, or fails, as it does when the locker
\* is out of order, and leaves the lockers and the index as they were; the
\* index and the lockers agree after every step.
C19_ReceiveAtomic ==
    [][/\ \A t \in Tracking, r \in Recipients, u \in Users :
              ReceiveParcel(t, r, u) =>
                  /\ ReceiveOutcome(t, r, u) = "received" => ReceivedState(t)
                  /\ (ReceiveOutcome(t, r, u) # "received" \/ HeldOutOfOrder(t))
                         => UNCHANGED <<lockers, parcels>>
       /\ IndexMatchesLockers'
      ]_vars

\* The parcel sits in a locker that is out of order, and the receive of its
\* recipient, counted, has failed on the locker.
C19_Witness ==
    /\ Stored(1)
    /\ HeldOutOfOrder(1)
    /\ is_operational
    /\ CountOf("u1") = 1
    /\ security_alerts = <<>>
    /\ ReceiveOutcome(1, parcelObj[1].recipient, "u1") = "locker_error"

\* The parcels the sweep would find expired.
Overdue == { t \in Tracking : \E k \in DOMAIN ExpiredNow : ExpiredNow[k] = t }

\* C20: a send whose notification fails still succeeds: the parcel is bound
\* to a locker, IN_POSTOMAT and in the index, and the notification history is
\* as it was; a sweep marks every overdue parcel EXPIRED whichever of its
\* notifications fail, and appends only those that were delivered.
C20_NotifierFailureSwallowed ==
    /\ \A p \in Tracking, u \in Users :
           (CheckSecurity(u).allowed /\ ~InIndex(p) /\ HasRoomFor(p)) =>
               /\ SendOutcome(p, u) = "sent"
               /\ ENABLED (/\ SendParcel(p, u, FALSE)
                           /\ SentState(p)
                           /\ UNCHANGED notifications)
    /\ \A dl \in SUBSET Overdue :
           ENABLED (/\ CheckExpiredParcels(dl)
                    /\ \A t \in Overdue : parcelObj'[t].status = "EXPIRED"
                    /\ Len(notifications') = Len(notifications) + Cardinality(dl))

\* The parcel was sent and has expired in its locker, and neither of the two
\* notifications was delivered.
C20_Witness ==
    /\ StatusOf(1) = "EXPIRED"
    /\ InIndex(1)
    /\ Resident(1)
    /\ notifications = <<>>

\* The gate admits a call of u: the station is operational and, at level
\* HIGH, the call does not take the count of u above the threshold.
GateAdmits(u) ==
    /\ is_operational
    /\ ~(security_level = "HIGH" /\ CountOf(u) >= SuspiciousThreshold)

ReportAddsUp(r) ==
    /\ r.lockers_checked = total_lockers
    /\ r.lockers_checked = Len(lockers)
    /\ r.lockers_repaired + r.failed_repairs = r.broken_before
    /\ r.broken_after = r.failed_repairs
    /\ r.broken_after <= r.broken_before

\* The lockers out of order after the step.
BrokenAfterwards == { i \in DOMAIN lockers' : ~lockers'[i].is_functional }

\* What C22 says of the step of a call whose repairs succeed on repaired.
C22_Reported(repaired) ==
    /\ Len(maintenance_log') = Len(maintenance_log) + 1
    /\ SubSeq(maintenance_log', 1, Len(maintenance_log)) = maintenance_log
    /\ LET r == maintenance_log'[Len(maintenance_log')]
       IN /\ ReportAddsUp(r)
          /\ r.broken_before = Cardinality(BrokenLockers)
          /\ r.broken_after = Cardinality(BrokenAfterwards)
          /\ r.lockers_repaired = Cardinality(repaired)
          /\ repaired = {} =>
                 /\ r.broken_after = r.broken_before
                 /\ r.failed_repairs = r.broken_before
                 /\ r.lockers_repaired = 0

FreeAndSound ==
    { i \in DOMAIN lockers : lockers[i].is_functional /\ ~lockers[i].is_occupied }

\* The step puts one functional, unoccupied locker out of order, leaves the
\* others as they were and logs one manual_failure.
BreaksOne ==
    /\ \E i \in FreeAndSound :
           lockers' = [lockers EXCEPT ![i].is_functional = FALSE]
    /\ security_alerts' = Append(security_alerts, "manual_failure")

\* C23: break_random_locker succeeds iff some locker is functional and
\* unoccupied; it then puts one such locker out of order, changes no other
\* locker and logs one manual_failure; when it fails it changes no locker
\* and no history.
C23_BreakOne ==
    /\ BreakOutcome = "broken" <=> FreeAndSound # {}
    /\ FreeAndSound # {} =>
           /\ \A c \in DOMAIN lockers :
                  ENABLED BreakRandomLocker(c) =>
                      ENABLED (BreakRandomLocker(c) /\ BreaksOne)
           /\ \E c \in DOMAIN lockers : ENABLED BreakRandomLocker(c)
           /\ ~ENABLED BreakRandomLocker(None)
    /\ FreeAndSound = {} =>
           ENABLED (BreakRandomLocker(None) /\ UNCHANGED vars)

\* Both lockers were put out of order and none is left to break.
C23_Witness ==
    /\ security_alerts = <<"manual_failure", "manual_failure">>
    /\ BrokenLockers = DOMAIN lockers
    /\ BreakOutcome = "none_to_break"

\* The expired parcel t sits in locker i, which is occupied and is not the
\* locker a send of any size would be given.
ExpiredKeepsLocker(t, i) ==
    /\ lockers[i].is_occupied
    /\ lockers[i].current_parcel = t
    /\ \A size \in Sizes : FindAvailableLocker(size) # i

\* C24: an expired parcel is in the index and in an occupied locker that no
\* send is given, and every step leaves it in that same locker.
C24_ExpiredStaysPut ==
    [][\A t \in Tracking :
          parcelObj'[t].status = "EXPIRED" =>
              /\ InIndex(t)'
              /\ \E i \in DOMAIN lockers' : ExpiredKeepsLocker(t, i)'
              /\ StatusOf(t) = "EXPIRED" =>
                     \A i \in DOMAIN lockers :
                         Holds(i, t) <=> lockers'[i].current_parcel = t
      ]_vars

\* The parcel has expired in the large locker, the small locker was put out
\* of order, and the recipient is turned down.
C24_Witness ==
    /\ StatusOf(1) = "EXPIRED"
    /\ \E i \in DOMAIN lockers : Holds(i, 1) /\ lockers[i].size = "LARGE"
    /\ BrokenLockers # {}
    /\ now = MaxTime
    /\ ReceiveOutcome(1, parcelObj[1].recipient, "u2") = "wrong_status"

\* The parcel is in the index, IN_POSTOMAT, and past its deadline.
PastDeadline(t) ==
    /\ InIndex(t)
    /\ StatusOf(t) = "IN_POSTOMAT"
    /\ parcelObj[t].storage_until # NoDeadline
    /\ now > parcelObj[t].storage_until

\* The receive of t reports the expiry, marks the parcel EXPIRED and leaves
\* it in its locker and in the index.
ExpiresInPlace(t, u) ==
    /\ ReceiveOutcome(t, parcelObj[t].recipient, u) = "expired"
    /\ ENABLED (/\ ReceiveParcel(t, parcelObj[t].recipient, u)
                /\ parcelObj'[t].status = "EXPIRED"
                /\ UNCHANGED <<lockers, parcels>>)

\* No receive expires a parcel that is IN_POSTOMAT and not past its deadline.
NotExpiredEarly ==
    \A t \in Tracking, r \in Recipients, u \in Users :
        (StatusOf(t) = "IN_POSTOMAT" /\ now <= parcelObj[t].storage_until) =>
            /\ ReceiveOutcome(t, r, u) # "expired"
            /\ ENABLED (ReceiveParcel(t, r, u) /\ parcelObj'[t].status # "EXPIRED")

\* C25 as stated: every receive by the recipient of a parcel past its
\* deadline reports the expiry and expires the parcel in place; no receive
\* expires a parcel at or before its deadline.
C25_LazyExpiry ==
    /\ \A t \in Tracking, u \in Users : PastDeadline(t) => ExpiresInPlace(t, u)
    /\ NotExpiredEarly

\* C25, amended: every receive that the gate admits, by the recipient of a
\* parcel past its deadline, reports the expiry and expires the parcel in
\* place; no receive expires a parcel at or before its deadline.
C25_LazyExpiryPastGate ==
    /\ \A t \in Tracking, u \in Users :
           (GateAdmits(u) /\ PastDeadline(t)) => ExpiresInPlace(t, u)
    /\ NotExpiredEarly

\* The stored parcel is past its deadline and not yet marked: the receive of
\* its recipient would expire it.
C25_Witness ==
    /\ PastDeadline(1)
    /\ Resident(1)
    /\ is_operational
    /\ ReceiveOutcome(1, parcelObj[1].recipient, "u1") = "expired"

\* The parcels a sweep is to expire.
DueToExpire == { t \in Tracking : PastDeadline(t) }

\* The notifications the step appends.
NewNotifications ==
    SubSeq(notifications', Len(notifications) + 1, Len(notifications'))

\* What C26 says of the step of a sweep all of whose notifications are
\* delivered.
C26_Swept ==
    /\ \A t \in Tracking :
           parcelObj'[t] = IF t \in DueToExpire
                           THEN [parcelObj[t] EXCEPT !.status = "EXPIRED"]
                           ELSE parcelObj[t]
    /\ UNCHANGED <<lockers, parcels>>
    /\ SubSeq(notifications', 1, Len(notifications)) = notifications
    /\ Len(NewNotifications) = Cardinality(DueToExpire)
    /\ \A t \in DueToExpire :
           \E k \in DOMAIN NewNotifications :
               /\ NewNotifications[k].parcel = t
               /\ NewNotifications[k].recipient = parcelObj[t].sender
    /\ ExpiredNow' = <<>>

\* C26: a sweep returns, each once, the indexed parcels that are IN_POSTOMAT
\* and past their deadline, marks them EXPIRED, notifies the sender of each,
\* and changes no other parcel, no locker and not the index; a sweep right
\* after it returns nothing.
C26_SweepExact ==
    /\ Len(ExpiredNow) = Cardinality(DueToExpire)
    /\ \A t \in Tracking : t \in DueToExpire <=> t \in Overdue
    /\ ENABLED (CheckExpiredParcels(DueToExpire) /\ C26_Swept)

\* Two parcels are stored, one past its deadline and one not.
C26_Witness ==
    /\ Len(parcels) = 2
    /\ \E t \in Tracking : PastDeadline(t)
    /\ \E t \in Tracking : Stored(t)

\* The deadlines a parcel can be given: none, or any day up to one storage
\* window past the horizon.
Deadlines == {NoDeadline} \cup (0 .. MaxTime + StorageDays)

\* is_expired of parcel t once its deadline is set to d, as the test of
\* is_expired sets it.
ExpiredWithDeadline(t, d) ==
    IsExpired([parcelObj[t] EXCEPT !.storage_until = d])

\* C27: is_expired is false without a deadline, false when the clock reads
\* the deadline, and true whenever the clock reads later than the deadline;
\* a placement sets the deadline to the time of placement plus the storage
\* window of three days.
C27_Deadline ==
    /\ \A t \in Tracking : \A d \in Deadlines :
           /\ d = NoDeadline => ~ExpiredWithDeadline(t, d)
           /\ d = now => ~ExpiredWithDeadline(t, d)
           /\ (d # NoDeadline /\ now > d) => ExpiredWithDeadline(t, d)
           /\ (d # NoDeadline /\ now < d) => ~ExpiredWithDeadline(t, d)
    /\ \A t \in Tracking : \A u \in Users :
           (GateAdmits(u) /\ ~InIndex(t) /\ HasRoomFor(t)) =>
               ENABLED (/\ SendParcel(t, u, TRUE)
                        /\ parcelObj'[t].status = "IN_POSTOMAT"
                        /\ parcelObj'[t].storage_until = now + 3)
    /\ \A t \in Tracking :
           StatusOf(t) = "CREATED" => parcelObj[t].storage_until = NoDeadline

\* A placed parcel is at its deadline, three days after the placement at day 3.
C27_Witness ==
    /\ Resident(1)
    /\ StatusOf(1) = "IN_POSTOMAT"
    /\ parcelObj[1].storage_until = 6
    /\ now = 6

\* A tracking number as the claim describes it: a prefix of the list and
\* ten digits after it.
WellFormedTracking(c) ==
    /\ Len(c) = 13
    /\ SubSeq(c, 1, 3) \in Prefixes
    /\ \A k \in 4..13 :
           c[k] \in {"0", "1", "2", "3", "4", "5", "6", "7", "8", "9"}

\* C28: the tracking numbers handed out in one process are pairwise
\* distinct, each is a prefix of the list followed by exactly ten digits,
\* and each is in the set of known codes; a candidate that is in the set is
\* not handed out (the loop turns again), a candidate that is not is
\* recorded and handed out.
C28_UniqueTracking ==
    /\ \A i, j \in DOMAIN issued : issued[i] = issued[j] => i = j
    /\ \A i \in DOMAIN issued :
           WellFormedTracking(issued[i]) /\ issued[i] \in existing_trackings
    /\ \A prefix \in Prefixes : \A numbers \in NumberDraws :
           LET c == prefix \o JoinDigits(numbers)
           IN IF c \in existing_trackings
              THEN ENABLED (/\ GenerateUniqueTracking(prefix, numbers)
                            /\ UNCHANGED <<existing_trackings, issued>>
                            /\ retries' = retries + 1)
              ELSE ENABLED (/\ GenerateUniqueTracking(prefix, numbers)
                            /\ issued' = Append(issued, c)
                            /\ existing_trackings' = existing_trackings \cup {c}
                            /\ UNCHANGED retries)

\* Two codes have been handed out and one candidate was drawn again.
C28_Witness ==
    /\ Len(issued) = 2
    /\ retries = 1
    /\ Cardinality(existing_trackings) = 2

\* The lockers of size s in the bank.
OfSize(s) == { i \in DOMAIN lockers : lockers[i].size = s }

\* What C29 says of a station right after its construction with n lockers.
FreshBank(n) ==
    /\ Len(lockers) = n
    /\ \A i \in 1..n :
           /\ lockers[i].number = i
           /\ ~lockers[i].is_occupied
           /\ lockers[i].is_functional
    /\ Cardinality(OfSize("SMALL")) = n \div 2
    /\ Cardinality(OfSize("MEDIUM")) = (3 * n) \div 10
    /\ Cardinality(OfSize("LARGE")) = n - (n \div 2) - ((3 * n) \div 10)
    /\ n = 5 => /\ Cardinality(OfSize("SMALL")) = 2
                /\ Cardinality(OfSize("MEDIUM")) = 1
                /\ Cardinality(OfSize("LARGE")) = 2
    /\ OfSize("LARGE") # {}
    /\ \A s \in Sizes :
           \E i \in 1..n :
               /\ FindAvailableLocker(s) = i
               /\ <<lockers[i].size, s>> \in SizeAtLeast

\* C29: a station constructed with n >= 1 lockers has n lockers, free and in
\* order, numbered 1..n in bank order, n div 2 of them SMALL, 3n div 10
\* MEDIUM and the rest, at least one, LARGE, so that a parcel of any size
\* finds a locker; a construction with n <= 0, an empty id or an empty
\* address yields no station.
C29_FreshStation ==
    /\ total_lockers # 0 => total_lockers >= 1 /\ FreshBank(total_lockers)
    /\ NoStation =>
           \A postomat_id \in PostomatIds, address \in Addresses,
              n \in LockerCounts, level \in SecurityLevels :
               ENABLED (/\ NewPostomat(postomat_id, address, n, level)
                        /\ IF postomat_id = "" \/ address = "" \/ n <= 0
                           THEN NoStation'
                           ELSE /\ total_lockers' = n
                                /\ security_level' = level
                                /\ is_operational')

\* A station of five lockers whose first locker is LARGE and last is SMALL.
C29_Witness ==
    /\ total_lockers = 5
    /\ lockers[1].size = "LARGE"
    /\ lockers[5].size = "SMALL"
    /\ is_operational

\* The national number (operator code and subscriber number) of a number
\* entered in one of the four formats, read off the cleaned text.
NationalPart(ph) ==
    LET c == Cleaned(ph)
    IN IF c[1] = "+" THEN SubSeq(c, 5, Len(c))
       ELSE IF c[1] = "3" THEN SubSeq(c, 4, Len(c))
       ELSE IF c[2] = "0" /\ Len(c) = 11 THEN SubSeq(c, 3, Len(c))
       ELSE SubSeq(c, 2, Len(c))

\* +375 and nine digits
Canonical(c) ==
    /\ Len(c) = 13
    /\ SubSeq(c, 1, 4) = <<"+", "3", "7", "5">>
    /\ \A k \in 5..13 : c[k] \in DigitChars

\* The operator codes the claim allows.
AllowedOperators ==
    { <<"2", "4">>, <<"2", "5">>, <<"2", "9">>, <<"3", "3">>, <<"4", "4">> }

\* Every number that is accepted becomes the canonical form of its
\* national number, whatever the format it was entered in.
NormalisedAlike ==
    \A ph \in EnteredPhones :
        ENABLED (NewPerson(ph) /\ phone' # NoPerson) =>
            ENABLED (/\ NewPerson(ph)
                     /\ Canonical(phone')
                     /\ phone' = <<"+", "3", "7", "5">> \o NationalPart(ph))

\* C30: a person is constructed only from a number whose operator code is
\* one of 24, 25, 29, 33, 44, and the number kept is the canonical
\* +375XXXXXXXXX of the number entered, whichever of the four formats it was
\* entered in.
C30_PhoneAccepted ==
    /\ phone # NoPerson =>
           Canonical(phone) /\ SubSeq(phone, 5, 6) \in AllowedOperators
    /\ phone = NoPerson => NormalisedAlike

\* The part of C30 that holds: the numbers entered as 375, 80 or 8 are
\* accepted only with an operator code of the list, and every accepted
\* number is kept in its canonical form.
C30_PhoneAcceptedNational ==
    /\ phone # NoPerson => Canonical(phone)
    /\ phone = NoPerson =>
           /\ NormalisedAlike
           /\ \A ph \in EnteredPhones :
                  (Cleaned(ph)[1] # "+" /\ ENABLED (NewPerson(ph) /\ phone' # NoPerson))
                      => SubSeq(NationalPart(ph), 1, 2) \in AllowedOperators

\* A person was constructed from a number with the operator code 99.
C30_Witness ==
    /\ phone # NoPerson
    /\ SubSeq(phone, 5, 6) = <<"9", "9">>

\* The lockers that would take parcel t: unoccupied, functional and at
\* least as large as the parcel.
WouldTake(t) ==
    { i \in DOMAIN lockers :
        /\ ~lockers[i].is_occupied
        /\ lockers[i].is_functional
        /\ <<lockers[i].size, parcelObj[t].size>> \in SizeAtLeast }

\* The step binds parcel t to locker i and to no other.
BoundTo(t, i) ==
    /\ lockers' = [lockers EXCEPT ![i].is_occupied = TRUE,
                                   ![i].current_parcel = t]
    /\ parcelObj'[t].locker_number = lockers[i].number
    /\ lockers[i].number = i

\* C31: a send that succeeds binds the parcel to the first locker in bank
\* order, which is the lowest-numbered, among those that were unoccupied,
\* functional and large enough, whatever larger or smaller lockers follow.
C31_FirstFit ==
    \A t \in Tracking, u \in Users :
        (GateAdmits(u) /\ ~InIndex(t) /\ WouldTake(t) # {}) =>
            \E i \in WouldTake(t) :
                /\ \A j \in WouldTake(t) : i <= j
                /\ ENABLED (SendParcel(t, u, TRUE) /\ BoundTo(t, i))

\* The SMALL parcel lies in the LARGE locker 1 while the SMALL locker 2 is
\* free and in order.
C31_Witness ==
    /\ parcelObj[1].size = "SMALL"
    /\ StatusOf(1) = "IN_POSTOMAT"
    /\ Holds(1, 1) /\ lockers[1].is_occupied /\ lockers[1].size = "LARGE"
    /\ lockers[2].size = "SMALL"
    /\ ~lockers[2].is_occupied /\ lockers[2].is_functional

\* What C32 lets a maintenance by technician change: out-of-order lockers
\* may come back in order, and a report is appended unless the name is
\* empty.
MaintenanceFrame(technician) ==
    /\ DOMAIN lockers' = DOMAIN lockers
    /\ \A i \in DOMAIN lockers :
           /\ lockers'[i].is_occupied = lockers[i].is_occupied
           /\ lockers'[i].current_parcel = lockers[i].current_parcel
           /\ lockers'[i].number = lockers[i].number
           /\ lockers'[i].size = lockers[i].size
           /\ lockers[i].is_functional => lockers'[i].is_functional
    /\ UNCHANGED <<parcels, parcelObj, is_operational, security_alerts,
                   user_operations, notifications>>
    /\ IF technician = ""
       THEN UNCHANGED <<lockers, maintenance_log>>
       ELSE /\ Len(maintenance_log') = Len(maintenance_log) + 1
            /\ SubSeq(maintenance_log', 1, Len(maintenance_log)) = maintenance_log

\* C32: a maintenance changes no occupancy, no resident parcel, not the
\* index, no parcel, not the operational flag, the alert log or the
\* counters, and puts no locker out of order; with an empty name of the
\* technician it changes nothing and appends no report.
C32_MaintenanceFrame ==
    \A technician \in Technicians, repaired \in SUBSET BrokenLockers :
        ENABLED (/\ PerformMaintenance(technician, repaired)
                 /\ MaintenanceFrame(technician))

\* A locker was broken and repaired while the other held a parcel.
C32_Witness ==
    /\ Len(maintenance_log) = 1
    /\ maintenance_log[1].lockers_repaired = 1
    /\ security_alerts = <<"manual_failure">>
    /\ BrokenLockers = {}
    /\ \E i \in DOMAIN lockers : lockers[i].is_occupied

\* Locker i cannot take parcel t: it is out of order, or occupied, or
\* smaller than the parcel.
CannotTake(i, t) ==
    \/ ~lockers[i].is_functional
    \/ lockers[i].is_occupied
    \/ <<lockers[i].size, parcelObj[t].size>> \notin SizeAtLeast

\* C33: put_parcel fails iff the locker is out of order, or occupied, or
\* smaller than the parcel; when it fails the locker and the parcel are as
\* before; when it succeeds the locker is occupied by the parcel and the
\* parcel is IN_POSTOMAT with the number of the locker.
C33_PutParcel ==
    \A i \in DOMAIN lockers, t \in Tracking :
        /\ PutParcelError(lockers[i], parcelObj[t]) <=> CannotTake(i, t)
        /\ IF CannotTake(i, t)
           THEN ENABLED (LockerPutParcel(i, t) /\ UNCHANGED <<lockers, parcelObj>>)
           ELSE ENABLED (/\ LockerPutParcel(i, t)
                         /\ lockers'[i].is_occupied
                         /\ lockers'[i].current_parcel = t
                         /\ parcelObj'[t].status = "IN_POSTOMAT"
                         /\ parcelObj'[t].locker_number = lockers[i].number
                         /\ \A j \in DOMAIN lockers \ {i} : lockers'[j] = lockers[j]
                         /\ \A x \in Tracking \ {t} : parcelObj'[x] = parcelObj[x])

\* Locker 1 holds parcel 1, placed at day 0 and now at its deadline, and
\* locker 2 is out of order.
C33_Witness ==
    /\ lockers[1].is_occupied /\ Holds(1, 1)
    /\ parcelObj[1].locker_number = 1
    /\ parcelObj[1].storage_until = now
    /\ ~lockers[2].is_functional
    /\ StatusOf(2) = "CREATED"

\* The calls that came to the bind with locker i scanned.
Contenders(i) ==
    { p \in Tracking : calls[p].locker = i /\ calls[p].pc \in {"index", "notify", "done"} }

\* The call for p has bound its parcel.
Bound(p) == calls[p].pc \in {"index", "notify"} \/ calls[p].result = "sent"

\* C34: when the scans of interleaved sends of different parcels pick the
\* same locker, one bind succeeds and every other fails with the error of
\* the locker, its parcel neither indexed nor IN_POSTOMAT, and the locker
\* holds the parcel of the one that succeeded: no two parcels are ever
\* placed in one locker.
C34_OneBindWins ==
    /\ \A i \in DOMAIN lockers :
           Contenders(i) # {} =>
               \E w \in Contenders(i) :
                   /\ Bound(w)
                   /\ lockers[i].is_occupied /\ lockers[i].current_parcel = w
                   /\ \A p \in Contenders(i) \ {w} :
                          /\ calls[p].result = "locker_error"
                          /\ ~InIndex(p)
                          /\ StatusOf(p) # "IN_POSTOMAT"
    /\ \A p, q \in Tracking :
           (/\ p # q
            /\ StatusOf(p) = "IN_POSTOMAT" /\ StatusOf(q) = "IN_POSTOMAT")
               => parcelObj[p].locker_number # parcelObj[q].locker_number

\* Both calls scanned locker 1; the call for parcel 2 bound it and the call
\* for parcel 1 returned the error of the locker.
C34_Witness ==
    /\ calls[1].locker = 1 /\ calls[2].locker = 1
    /\ calls[2].result = "sent"
    /\ calls[1].result = "locker_error"
    /\ Holds(1, 2)

\* C35: in every state the public operations reach, no locker is at once
\* occupied and out of order: no stored parcel sits behind a broken locker.
C35_NoParcelTrapped ==
    \A i \in DOMAIN lockers :
        ~(lockers[i].is_occupied /\ ~lockers[i].is_functional)

\* The parcel is stored in one locker while the other was put out of order.
C35_Witness ==
    /\ \E i \in DOMAIN lockers : Holds(i, 1) /\ lockers[i].is_occupied
    /\ \E j \in DOMAIN lockers : ~lockers[j].is_functional
    /\ BreakOutcome = "none_to_break"

\* The parcel is in the index, IN_POSTOMAT, and at or before its deadline.
Claimable(t) ==
    /\ InIndex(t)
    /\ StatusOf(t) = "IN_POSTOMAT"
    /\ ~(parcelObj[t].storage_until # NoDeadline /\ now > parcelObj[t].storage_until)

\* C36: in every state the public operations reach, a receive the gate
\* admits, of a parcel in the index, IN_POSTOMAT and not past its deadline,
\* by its recorded recipient, succeeds; no receive at all reports that the
\* locker was not found or that the locker failed, whatever lockers were
\* broken or maintained before.
C36_ReceiveSucceeds ==
    /\ \A t \in Tracking, u \in Users :
           (GateAdmits(u) /\ Claimable(t)) =>
               /\ ReceiveOutcome(t, parcelObj[t].recipient, u) = "received"
               /\ ENABLED (/\ ReceiveParcel(t, parcelObj[t].recipient, u)
                           /\ ReceivedState(t))
    /\ \A t \in Tracking, r \in Recipients, u \in Users :
           ReceiveOutcome(t, r, u) \notin {"locker_not_found", "locker_error"}

\* The parcel is stored, a locker was broken and a maintenance has run
\* since, and the receive of the recipient would succeed.
C36_Witness ==
    /\ Claimable(1)
    /\ GateAdmits("u1")
    /\ Len(maintenance_log) = 1
    /\ security_alerts = <<"manual_failure">>
    /\ ReceiveOutcome(1, parcelObj[1].recipient, "u1") = "received"

\* The places of the alert log that hold an unauthorized_access or a
\* suspicious_activity.
SeriousEntries ==
    { k \in DOMAIN security_alerts : security_alerts[k] \in SeriousAlerts }

\* C37: in every state the public operations reach, the station is locked
\* iff its level is HIGH and the alert log holds an unauthorized_access or a
\* suspicious_activity; a station at LOW or MEDIUM is never locked, and the
\* log of a station at HIGH holds at most one such alert.
C37_LockedIffSeriousAtHigh ==
    /\ ~is_operational <=> (security_level = "HIGH" /\ SeriousEntries # {})
    /\ security_level \in {"LOW", "MEDIUM"} => is_operational
    /\ security_level = "HIGH" => Cardinality(SeriousEntries) <= 1

\* At level MEDIUM a wrong claimant and the 51st call of u1 were both
\* logged, and the station works on.
C37_Witness ==
    /\ security_level = "MEDIUM"
    /\ is_operational
    /\ security_alerts = <<"unauthorized_access", "suspicious_activity">>
    /\ CountOf("u1") > SuspiciousThreshold

\* The parcel is EXPIRED, as the receive that found it past its deadline
\* left it: in the index and in its locker.
Lapsed(t) == InIndex(t) /\ StatusOf(t) = "EXPIRED"

\* The parcel stays EXPIRED through every step, no sweep returns it or
\* notifies anyone of it, and no receive reports its expiry again or changes
\* it.
LapsedForGood(t) ==
    /\ ~ENABLED (NextFault /\ ~Lapsed(t)')
    /\ t \notin Overdue
    /\ \A dl \in SUBSET Tracking :
           ~ENABLED (/\ CheckExpiredParcels(dl)
                     /\ \/ parcelObj'[t] # parcelObj[t]
                        \/ \E k \in DOMAIN NewNotifications :
                               NewNotifications[k].parcel = t)
    /\ \A r \in Recipients, u \in Users :
           /\ ReceiveOutcome(t, r, u) # "expired"
           /\ ENABLED (ReceiveParcel(t, r, u) /\ parcelObj'[t] = parcelObj[t])

\* C38 as stated: a parcel a receive has expired is returned by no later
\* sweep, so its sender is sent no notification of the expiry; no later
\* receive reports the expiry again, and every later receive of the parcel
\* reports the wrong status.
C38_ExpiredOnce ==
    \A t \in Tracking :
        Lapsed(t) =>
            /\ LapsedForGood(t)
            /\ \A r \in Recipients, u \in Users :
                   ReceiveOutcome(t, r, u) = "wrong_status"

\* C38, amended: a parcel a receive has expired is returned by no later
\* sweep, so its sender is sent no notification of the expiry; no later
\* receive reports the expiry again, and every later receive of the parcel
\* that the gate admits, by its recorded recipient, reports the wrong status.
C38_ExpiredOncePastGate ==
    \A t \in Tracking :
        Lapsed(t) =>
            /\ LapsedForGood(t)
            /\ \A u \in Users :
                   GateAdmits(u) =>
                       ReceiveOutcome(t, parcelObj[t].recipient, u) = "wrong_status"

\* The parcel is EXPIRED and past its deadline, its sender was sent nothing,
\* and the receive of its recipient now reports the wrong status.
C38_Witness ==
    /\ Lapsed(1)
    /\ IsExpired(parcelObj[1])
    /\ notifications = <<>>
    /\ CountOf("u1") = 1
    /\ ReceiveOutcome(1, parcelObj[1].recipient, "u1") = "wrong_status"

\* The step leaves the operational flag and the counters as they were.
SecurityUntouched == UNCHANGED <<is_operational, user_operations>>

\* The maintenance repairs the lockers of repaired and no other, and appends
\* its report.
Maintains(repaired) ==
    /\ C22_Reported(repaired)
    /\ \A i \in DOMAIN lockers :
           lockers'[i].is_functional <=> (lockers[i].is_functional \/ i \in repaired)

\* C39: maintenance, break_random_locker and the sweep pass no security
\* gate: whether the station is locked or not, the maintenance repairs and
\* reports, break_random_locker breaks a functional unoccupied locker if
\* there is one, and the sweep expires the parcels past their deadline; at
\* every level none of them changes a counter or the operational flag.
C39_NotGated ==
    /\ \A repaired \in SUBSET BrokenLockers :
           ENABLED (PerformMaintenance("tech", repaired) /\ Maintains(repaired))
    /\ \A technician \in Technicians, repaired \in SUBSET BrokenLockers :
           ~ENABLED (PerformMaintenance(technician, repaired) /\ ~SecurityUntouched)
    /\ IF FreeAndSound # {}
       THEN \A c \in FreeAndSound :
                ENABLED (/\ BreakRandomLocker(c)
                         /\ lockers' = [lockers EXCEPT ![c].is_functional = FALSE]
                         /\ security_alerts' = Append(security_alerts, "manual_failure"))
       ELSE ENABLED (BreakRandomLocker(None) /\ UNCHANGED vars)
    /\ \A c \in DOMAIN lockers \cup {None} :
           ~ENABLED (BreakRandomLocker(c) /\ ~SecurityUntouched)
    /\ ENABLED (CheckExpiredParcels(DueToExpire) /\ C26_Swept)
    /\ \A dl \in SUBSET Tracking :
           ~ENABLED (CheckExpiredParcels(dl) /\ ~SecurityUntouched)

\* At level HIGH a wrong claimant locked the station, a locker was broken
\* afterwards, and the stored parcel is past its deadline, for the sweep to
\* expire.
C39_Witness ==
    /\ security_level = "HIGH"
    /\ ~is_operational
    /\ security_alerts = <<"unauthorized_access", "manual_failure">>
    /\ PastDeadline(1)

====
